---- MODULE Spec2Model ----
(***************************************************************************)
(* Model of the PL/SQL review pipeline: the stage executor with its        *)
(* one-shot JSON correction pass, the schema validator, the per-file       *)
(* aggregator, the run audit logger and the directory orchestrator.        *)
(*                                                                         *)
(* Texts are abstracted to short strings; JSON values are tagged records   *)
(* [t, v]; a JSON object is a sequence of [k, v] members in document       *)
(* order (the insertion order of the Python dict json.loads builds).       *)
(* Timestamps and checksums are left out of every record.                  *)
(***************************************************************************)
EXTENDS Integers, Sequences, FiniteSets, TLC

VARIABLES
    args,       \* the parsed command line: entry point, flags, whether the path exists
    listing,    \* the files under the root the glob has still to yield, in its order
    files,      \* main: the discovered files
    pc,         \* main / process_file: the statement about to run
    cur,        \* main: position of the loop in files
    local,      \* process_file: its local variables for the file being processed
    run_logger, \* process_file: the RunLogger of the file being processed
    results,    \* main: the per-file results collected so far
    stderr,     \* the exceptions reported on the error channel, with the file and stage
    exit_code,  \* the process exit status, -1 until the process ends
    dirs,       \* the directories created on disk
    disk,       \* the files written to disk: name -> content
    requests,   \* every request sent to the external service, in order
    parses,     \* every json.loads call of a structured stage, in order
    attempted,  \* the files handed to process_file, in order
    fn,         \* pure-function harness: name of the function applied, "none" before
    input,      \* pure-function harness: the argument drawn at Init
    output,     \* pure-function harness: the value returned / exception raised
    updaters    \* concurrent runs at one log location: each run's position in
                \* _update_global_index, the index it has loaded, its updates done

restVars == <<args, listing, files, pc, cur, local, run_logger, results, stderr,
              exit_code, dirs, requests, parses, attempted>>
pipeVars == <<args, listing, files, pc, cur, local, run_logger, results, stderr,
              exit_code, dirs, disk, requests, parses, attempted>>
fnVars == <<fn, input, output, updaters>>
vars == <<pipeVars, fnVars>>

(***************************************************************************)
(* JSON values                                                             *)
(***************************************************************************)
JStr(s) == [t |-> "str", v |-> s]
JNum(n) == [t |-> "num", v |-> n]
JNull == [t |-> "null", v |-> 0]
JList(seq) == [t |-> "list", v |-> seq]
JDict(members) == [t |-> "dict", v |-> members]

IsStr(x) == x.t = "str"
IsList(x) == x.t = "list"
IsDict(x) == x.t = "dict"

Member(key, val) == [k |-> key, v |-> val]

\* key in obj, for a dict
HasKey(obj, key) == \E i \in 1..Len(obj.v) : obj.v[i].k = key

\* obj[key], for a dict that has the key
Get(obj, key) == obj.v[CHOOSE i \in 1..Len(obj.v) : obj.v[i].k = key].v

\* the keys of a dict, as a set
Keys(obj) == {obj.v[i].k : i \in 1..Len(obj.v)}

\* index of the first raised result of a sequence of results, 0 when there
\* is none: where a loop over a sequence stops at its first raise
FirstError(rs) ==
    IF \E i \in 1..Len(rs) : ~rs[i].ok
    THEN CHOOSE i \in 1..Len(rs) : ~rs[i].ok /\ \A j \in 1..(i - 1) : rs[j].ok
    ELSE 0

(***************************************************************************)
(* modules/validator.py                                                    *)
(***************************************************************************)
NoError == [ok |-> TRUE]
Raise(exc, msg, key) == [ok |-> FALSE, exc |-> exc, msg |-> msg, key |-> key]

required_categories ==
    <<"performance", "error_handling", "logic_correctness", "maintainability",
      "security", "data_integrity", "uncertainty">>

required_analysis == <<"summary", "risks", "assumptions">>

\* `key not in obj`: membership of a dict is by key, of a list by element;
\* any other JSON value here (number, null) is not a container
_ensure_keys(obj, required_keys, context) ==
    IF ~(IsDict(obj) \/ IsList(obj))
    THEN Raise("TypeError", "not iterable", "")
    ELSE LET present(key) == IF IsDict(obj) THEN HasKey(obj, key)
                             ELSE \E i \in 1..Len(obj.v) : obj.v[i] = JStr(key)
             missing(key) == ~present(key)
             absent == SelectSeq(required_keys, missing)
         IN  IF absent = <<>> THEN NoError
             ELSE Raise("ValueError", context \o ": missing required key", Head(absent))

\* isinstance(x, list) and all(isinstance(r, str) for r in x)
IsListOfStr(x) == IsList(x) /\ \A i \in 1..Len(x.v) : IsStr(x.v[i])

\* mutant: the element type of a list is not looked at
CheckEntries_NoTypeCheck(issues) ==
    CASE IsList(issues) \/ IsStr(issues) \/ IsDict(issues) -> "pass"
      [] OTHER -> "TypeError"

\* outcome of `for issue in issues: if not isinstance(issue, str): raise`:
\* a list yields its elements, a str its characters, a dict its keys (all
\* str), and a number or null cannot be iterated
CheckEntries(issues) ==
    CASE IsList(issues) -> IF \A i \in 1..Len(issues.v) : IsStr(issues.v[i])
                           THEN "pass" ELSE "ValueError"
      [] IsStr(issues) \/ IsDict(issues) -> "pass"
      [] OTHER -> "TypeError"

validate_classification(data) ==
    LET keys == _ensure_keys(data, required_categories, "Classification")
        notList(key) == ~IsList(Get(data, key))
        bad == SelectSeq(required_categories, notList)
        fails(m) == CheckEntries(m.v) # "pass"
        failing == SelectSeq(data.v, fails)
    IN  IF ~keys.ok THEN keys
        ELSE IF ~IsDict(data)
        THEN Raise("TypeError", "list indices must be integers", "")
        ELSE IF bad # <<>>
        THEN Raise("ValueError", "Classification: should be a list", Head(bad))
        ELSE IF failing # <<>>
        THEN IF CheckEntries(Head(failing).v) = "TypeError"
             THEN Raise("TypeError", "not iterable", Head(failing).k)
             ELSE Raise("ValueError", "Classification: entry is not a string", Head(failing).k)
        ELSE NoError

\* mutant: the elements of 'assumptions' are not checked
validate_analysis_NoAssumptionCheck(data) ==
    LET keys == _ensure_keys(data, required_analysis, "Analysis")
    IN  IF ~keys.ok THEN keys
        ELSE IF ~IsDict(data)
        THEN Raise("TypeError", "list indices must be integers", "")
        ELSE IF ~IsStr(Get(data, "summary"))
        THEN Raise("ValueError", "Analysis: 'summary' must be a string.", "summary")
        ELSE IF ~IsListOfStr(Get(data, "risks"))
        THEN Raise("ValueError", "Analysis: 'risks' must be a list of strings.", "risks")
        ELSE IF ~IsList(Get(data, "assumptions"))
        THEN Raise("ValueError", "Analysis: 'assumptions' must be a list of strings.", "assumptions")
        ELSE NoError

validate_analysis(data) ==
    LET keys == _ensure_keys(data, required_analysis, "Analysis")
    IN  IF ~keys.ok THEN keys
        ELSE IF ~IsDict(data)
        THEN Raise("TypeError", "list indices must be integers", "")
        ELSE IF ~IsStr(Get(data, "summary"))
        THEN Raise("ValueError", "Analysis: 'summary' must be a string.", "summary")
        ELSE IF ~IsListOfStr(Get(data, "risks"))
        THEN Raise("ValueError", "Analysis: 'risks' must be a list of strings.", "risks")
        ELSE IF ~IsListOfStr(Get(data, "assumptions"))
        THEN Raise("ValueError", "Analysis: 'assumptions' must be a list of strings.", "assumptions")
        ELSE NoError

(***************************************************************************)
(* Python built-ins used by the aggregator, on the texts of the model      *)
(***************************************************************************)
\* str.lower()
Lower(s) ==
    CASE s = "HIGH" -> "high"
      [] s = "Critical" -> "critical"
      [] s = "Blocker" -> "blocker"
      [] OTHER -> s

\* str.upper(), on the key names of the model
Upper(s) ==
    CASE s = "performance" -> "PERFORMANCE"
      [] s = "error_handling" -> "ERROR_HANDLING"
      [] s = "logic_correctness" -> "LOGIC_CORRECTNESS"
      [] s = "maintainability" -> "MAINTAINABILITY"
      [] s = "security" -> "SECURITY"
      [] s = "data_integrity" -> "DATA_INTEGRITY"
      [] s = "uncertainty" -> "UNCERTAINTY"
      [] s = "notes" -> "NOTES"
      [] s = "critical" -> "CRITICAL"
      [] OTHER -> s

\* str.strip()
Strip(s) ==
    LET whitespace == {" ", "\t", "\n", "\r"}
        RECURSIVE lstrip(_)
        lstrip(t) == IF Len(t) > 0 /\ SubSeq(t, 1, 1) \in whitespace
                     THEN lstrip(SubSeq(t, 2, Len(t))) ELSE t
        RECURSIVE rstrip(_)
        rstrip(t) == IF Len(t) > 0 /\ SubSeq(t, Len(t), Len(t)) \in whitespace
                     THEN rstrip(SubSeq(t, 1, Len(t) - 1)) ELSE t
    IN  rstrip(lstrip(s))

\* `sub in s`
Contains(s, sub) ==
    \E i \in 1..(Len(s) - Len(sub) + 1) : SubSeq(s, i, i + Len(sub) - 1) = sub

\* str(x)
PyStr(x) ==
    CASE x.t = "str" -> x.v
      [] x.t = "num" -> CASE x.v = 0 -> "0" [] x.v = 1 -> "1" [] x.v = 3 -> "3"
                          [] x.v = 7 -> "7" [] OTHER -> "<int>"
      [] x.t = "null" -> "None"
      [] x.t = "list" -> IF Len(x.v) = 0 THEN "[]" ELSE "[...]"
      [] OTHER -> IF Len(x.v) = 0 THEN "{}" ELSE "{...}"

\* bool(x)
Truthy(x) ==
    CASE x.t = "str" -> x.v # ""
      [] x.t = "num" -> x.v # 0
      [] x.t = "null" -> FALSE
      [] x.t = "bool" -> x.v
      [] OTHER -> Len(x.v) > 0

\* d.get(key)
DictGet(d, key) == IF HasKey(d, key) THEN Get(d, key) ELSE JNull

\* d[key] = val
SetItem(d, key, val) ==
    IF HasKey(d, key)
    THEN JDict([i \in 1..Len(d.v) |-> IF d.v[i].k = key THEN Member(key, val) ELSE d.v[i]])
    ELSE JDict(Append(d.v, Member(key, val)))

\* d.setdefault(key, val)
SetDefault(d, key, val) == IF HasKey(d, key) THEN d ELSE SetItem(d, key, val)

\* a or b
Or(a, b) == IF Truthy(a) THEN a ELSE b

Returns(val) == [ok |-> TRUE, value |-> val]

RECURSIVE Concat(_)
Concat(seqs) == IF Len(seqs) = 0 THEN <<>> ELSE Head(seqs) \o Concat(Tail(seqs))

RECURSIVE SumSeq(_)
SumSeq(nums) == IF Len(nums) = 0 THEN 0 ELSE Head(nums) + SumSeq(Tail(nums))

Min(a, b) == IF a < b THEN a ELSE b
Max(a, b) == IF a > b THEN a ELSE b

\* mutant: every occurrence is kept
Dedup_Keep(seq) == seq

\* seq without the later occurrences of an element (`if x not in out: out.append(x)`)
RECURSIVE Dedup(_)
Dedup(seq) ==
    IF Len(seq) = 0 THEN <<>>
    ELSE LET front == Dedup(SubSeq(seq, 1, Len(seq) - 1))
             last == seq[Len(seq)]
         IN  IF \E i \in 1..Len(front) : front[i] = last THEN front ELSE Append(front, last)

(***************************************************************************)
(* bin/ai_plsql_review.py: per-file aggregation                            *)
(***************************************************************************)
allowed_severities == {"low", "medium", "high", "critical"}

\* mutant: an unrecognized severity is kept as it is
NormalizeSeverity_KeepUnknown(sev) == Lower(sev)

\* lines 233-235, on the str that `issue_dict.get("severity") or "medium"` gave
NormalizeSeverity(sev) ==
    IF Lower(sev) \in allowed_severities THEN Lower(sev) ELSE "medium"

\* mutant: the default code is the category name as it is
FlattenItem_CodeAsIs(issue, category) ==
    LET issue_dict == IF ~IsDict(issue)
                      THEN JDict(<<Member("message", JStr(PyStr(issue)))>>)
                      ELSE issue
        tagged == SetDefault(issue_dict, "category", JStr(category))
        sev == Or(DictGet(tagged, "severity"), JStr("medium"))
    IN  IF ~IsStr(sev)
        THEN Raise("AttributeError", "object has no attribute 'lower'", category)
        ELSE Returns(SetDefault(SetItem(tagged, "severity", JStr(NormalizeSeverity(sev.v))),
                                "code", JStr(category)))

\* body of the inner loop: one entry of one category
FlattenItem(issue, category) ==
    LET issue_dict == IF ~IsDict(issue)
                      THEN JDict(<<Member("message", JStr(PyStr(issue)))>>)
                      ELSE issue
        tagged == SetDefault(issue_dict, "category", JStr(category))
        sev == Or(DictGet(tagged, "severity"), JStr("medium"))
    IN  IF ~IsStr(sev)
        THEN Raise("AttributeError", "object has no attribute 'lower'", category)
        ELSE Returns(SetDefault(SetItem(tagged, "severity", JStr(NormalizeSeverity(sev.v))),
                                "code", JStr(Upper(category))))

_flatten_issues_from_classification(classification) ==
    LET perCategory == [i \in 1..Len(classification.v) |->
            LET items == classification.v[i].v
            IN  IF ~IsList(items) THEN <<>>
                ELSE [j \in 1..Len(items.v) |-> FlattenItem(items.v[j], classification.v[i].k)]]
        all == Concat(perCategory)
        f == FirstError(all)
    IN  IF f # 0 THEN all[f]
        ELSE Returns([i \in 1..Len(all) |-> all[i].value])

\* mutant: every issue weighs the default
severity_weights_Flat(sev) == 10

\* mutant: a high issue weighs as a medium one
severity_weights_HighAsMedium(sev) ==
    CASE sev = "low" -> 5
      [] sev = "critical" -> 30
      [] OTHER -> 10

severity_weights(sev) ==
    CASE sev = "low" -> 5
      [] sev = "medium" -> 10
      [] sev = "high" -> 20
      [] sev = "critical" -> 30
      [] OTHER -> 10

_compute_risk_score(classification, analysis) ==
    LET flat == _flatten_issues_from_classification(classification)
        risks == Or(DictGet(analysis, "risks"), JList(<<>>))
        bump == IF IsList(risks) THEN 5 * Len(risks.v) ELSE 0
    IN  IF ~flat.ok THEN flat
        ELSE LET issues == flat.value
                 weights == [i \in 1..Len(issues) |->
                                severity_weights(DictGet(issues[i], "severity").v)]
             IN  Returns(Max(0, Min(100, SumSeq(weights) + bump)))

\* text of one checklist source entry: a dict gives the first truthy of fields,
\* anything else its str(); then .strip(), which only a str has
EntryText(item, fields) ==
    LET RECURSIVE pick(_)
        pick(fs) == IF Len(fs) = 0 THEN JStr("")
                    ELSE Or(DictGet(item, Head(fs)), pick(Tail(fs)))
        text == IF IsDict(item) THEN pick(fields) ELSE JStr(PyStr(item))
    IN  IF ~IsStr(text)
        THEN Raise("AttributeError", "object has no attribute 'strip'", "")
        ELSE Returns(Strip(text.v))

\* mutant: an entry without text gives a label too
BucketLabels_KeepsBlank(bucket, fields, prefix) ==
    IF ~IsList(bucket) THEN Returns(<<>>)
    ELSE LET texts == [i \in 1..Len(bucket.v) |-> EntryText(bucket.v[i], fields)]
             f == FirstError(texts)
         IN  IF f # 0 THEN texts[f]
             ELSE Returns([i \in 1..Len(texts) |-> prefix \o texts[i].value])

\* labels of one bucket, in order, without the empty texts; an exception if one entry raises
BucketLabels(bucket, fields, prefix) ==
    IF ~IsList(bucket) THEN Returns(<<>>)
    ELSE LET texts == [i \in 1..Len(bucket.v) |-> EntryText(bucket.v[i], fields)]
             f == FirstError(texts)
             nonEmpty(r) == r.value # ""
             kept == SelectSeq(texts, nonEmpty)
         IN  IF f # 0 THEN texts[f]
             ELSE Returns([i \in 1..Len(kept) |-> prefix \o kept[i].value])

_derive_checklist_items(classification, analysis) ==
    LET review == <<"mitigation", "recommendation", "message", "description">>
        risks == BucketLabels(Or(DictGet(analysis, "risks"), JList(<<>>)), review, "Review: ")
        assumptions == BucketLabels(Or(DictGet(analysis, "assumptions"), JList(<<>>)), review, "Review: ")
        unc == BucketLabels(Or(DictGet(classification, "uncertainty"), JList(<<>>)),
                            <<"message", "description">>, "Clarify: ")
    IN  IF ~risks.ok THEN risks
        ELSE IF ~assumptions.ok THEN assumptions
        ELSE IF ~unc.ok THEN unc
        ELSE Returns(Dedup(risks.value \o assumptions.value \o unc.value))

_derive_refactor_suggestions(classification, analysis) ==
    LET keys == <<"suggestions", "refactor_suggestions", "improvements">>
        fromKey(key) ==
            LET val == DictGet(analysis, key)
            IN  IF ~IsList(val) THEN <<>>
                ELSE [i \in 1..Len(val.v) |-> Strip(PyStr(val.v[i]))]
        explicit == Concat([i \in 1..Len(keys) |-> fromKey(keys[i])])
        flat == _flatten_issues_from_classification(classification)
        issueText(issue) ==
            LET text == Or(DictGet(issue, "recommendation"),
                           Or(DictGet(issue, "suggestion"), JStr("")))
            IN  IF ~IsStr(text)
                THEN Raise("AttributeError", "object has no attribute 'strip'", "")
                ELSE Returns(Strip(text.v))
        nonEmptyText(s) == s # ""
    IN  IF ~flat.ok THEN flat
        ELSE LET texts == [i \in 1..Len(flat.value) |-> issueText(flat.value[i])]
                 f == FirstError(texts)
             IN  IF f # 0 THEN texts[f]
                 ELSE Returns(Dedup(SelectSeq(explicit \o [i \in 1..Len(texts) |-> texts[i].value],
                                              nonEmptyText)))

(***************************************************************************)
(* bin/ai_plsql_review.py: run-level aggregation                           *)
(***************************************************************************)
\* mutant: the mean is cut off, not rounded
RoundedMean_HalfUp(total, n) == (2 * total + n) \div (2 * n)

RoundedMean_Floor(total, n) == total \div n

\* round(total / n): Python's round() takes a tie to the even neighbour
RoundedMean(total, n) ==
    LET q == total \div n
        r == total % n
    IN  IF 2 * r < n THEN q
        ELSE IF 2 * r > n THEN q + 1
        ELSE IF q % 2 = 0 THEN q ELSE q + 1

\* mutant: only a critical issue is flagged
IsRedFlagSeverity_CriticalOnly(sev) == Lower(sev) = "critical"

\* `.lower() in {"high", "critical"}`
IsRedFlagSeverity(sev) == Lower(sev) \in {"high", "critical"}

aggregate_results(run_id, file_results) ==
    LET scanned_files == Len(file_results)
        overall_risk ==
            IF scanned_files = 0 THEN 0
            ELSE RoundedMean(SumSeq([i \in 1..scanned_files |-> file_results[i].risk_score]),
                             scanned_files)
        sevOf(issue) == Or(DictGet(issue, "severity"), JStr(""))
        allIssues == Concat([i \in 1..scanned_files |-> file_results[i].issues])
        noLower(issue) == ~IsStr(sevOf(issue))
        flagsOf(fr) ==
            LET high(issue) == IsRedFlagSeverity(sevOf(issue).v)
                sel == SelectSeq(fr.issues, high)
            IN  [i \in 1..Len(sel) |->
                    [file |-> fr.path,
                     severity |-> DictGet(sel[i], "severity"),
                     code |-> DictGet(sel[i], "code"),
                     message |-> DictGet(sel[i], "message")]]
    IN  IF \E i \in 1..Len(allIssues) : noLower(allIssues[i])
        THEN Raise("AttributeError", "object has no attribute 'lower'", "")
        ELSE Returns(
            [run_id |-> run_id,
             scanned_files |-> scanned_files,
             overall_risk_score |-> overall_risk,
             red_flags |-> Concat([i \in 1..scanned_files |-> flagsOf(file_results[i])]),
             files |-> file_results,
             checklist |-> Dedup(Concat([i \in 1..scanned_files |->
                                            file_results[i].checklist_items]))])

(***************************************************************************)
(* modules/run_logger.py                                                   *)
(***************************************************************************)
\* sha256 of a text, kept symbolic
Sha256(content) == <<"sha256", content>>

NoLogger == [input_file |-> <<0, 0>>, input_sha256 |-> <<>>, flags |-> <<>>,
             steps |-> <<>>, outputs |-> <<>>]

RunLogger(input_file, input_sha256, flags) ==
    [input_file |-> input_file, input_sha256 |-> input_sha256, flags |-> flags,
     steps |-> <<>>, outputs |-> <<>>]

\* mutant: the event is put in front of the step log
log_step_Prepends(self, name, status) ==
    [self EXCEPT !.steps = <<[name |-> name, status |-> status]>> \o @]

\* mutant: the registry keeps the last artifact only
add_output_Replaces(self, kind, path, content) ==
    [self EXCEPT !.outputs = <<[kind |-> kind, path |-> path, sha256 |-> Sha256(content)]>>]

log_step(self, name, status) ==
    [self EXCEPT !.steps = Append(@, [name |-> name, status |-> status])]

add_output(self, kind, path, content) ==
    [self EXCEPT !.outputs = Append(@, [kind |-> kind, path |-> path,
                                        sha256 |-> Sha256(content)])]

to_dict(self) ==
    [version |-> 1, input_file |-> self.input_file, model |-> "DEFAULT",
     input_sha256 |-> self.input_sha256, flags |-> self.flags,
     steps |-> self.steps, outputs |-> self.outputs]

(***************************************************************************)
(* The file system: a file name is <<directory, base name, suffix>>, the   *)
(* base name 0 standing for a run-level file                               *)
(***************************************************************************)
\* json.dumps(value)
json_dumps(value) == [kind |-> "json", value |-> value]

\* mutant: nothing is written
WriteText_Skipped(d, name, content) == d

\* path.write_text(content)
WriteText(d, name, content) ==
    [n \in DOMAIN d \cup {name} |-> IF n = name THEN content ELSE d[n]]

\* path.is_file()
IsFile(d, name) == name \in DOMAIN d

\* RunLogger.write(log_dir, base_name), the disk afterwards
RunLoggerWrite_Skipped(d, self, base_name) == d

RunLoggerWrite(d, self, base_name) ==
    WriteText(d, <<"log", base_name, "_runlog.json">>, json_dumps(to_dict(self)))

index_path == <<"log", 0, "index.json">>

\* mutant: a document that is no list is kept as the first entry
LoadIndex_KeepsDocument(d) ==
    IF IsFile(d, index_path)
    THEN IF d[index_path].kind = "json" /\ d[index_path].value.t = "list"
         THEN d[index_path].value.v
         ELSE <<d[index_path].value>>
    ELSE <<>>

\* _update_global_index up to the entry: `existing`, the list the index file
\* holds, [] where the file is missing, does not parse or holds no list
LoadIndex(d) ==
    IF IsFile(d, index_path)
    THEN IF d[index_path].kind = "json" /\ d[index_path].value.t = "list"
         THEN d[index_path].value.v
         ELSE <<>>
    ELSE <<>>

IndexEntry(runlog_path, run_logger_) ==
    [record |-> to_dict(run_logger_), runlog_path |-> runlog_path]

\* mutant: the index is written with the new entry alone
StoreIndex_EntryAlone(d, existing, runlog_path, run_logger_) ==
    WriteText(d, index_path, json_dumps(JList(<<IndexEntry(runlog_path, run_logger_)>>)))

\* mutant: the index is read again at the write
StoreIndex_ReadsAgain(d, existing, runlog_path, run_logger_) ==
    WriteText(d, index_path,
              json_dumps(JList(Append(LoadIndex(d), IndexEntry(runlog_path, run_logger_)))))

\* _update_global_index from the entry on: the entry is appended to
\* `existing` and the list written over the index file
StoreIndex(d, existing, runlog_path, run_logger_) ==
    WriteText(d, index_path,
              json_dumps(JList(Append(existing, IndexEntry(runlog_path, run_logger_)))))

\* mutant: the index is left as it is
_update_global_index_Skipped(d, runlog_path, run_logger_) == d

\* the disk after _update_global_index(log_dir, runlog_path, run_logger)
_update_global_index(d, runlog_path, run_logger_) ==
    StoreIndex(d, LoadIndex(d), runlog_path, run_logger_)

(***************************************************************************)
(* modules/llm_client.py, the service's replies and json.loads             *)
(***************************************************************************)
\* what call_llm returns for the content of the service's first choice:
\* (content or "").strip()
call_llm(content) == Strip(IF content.t = "null" THEN "" ELSE content.v)

empty_classification ==
    JDict([i \in 1..Len(required_categories) |-> Member(required_categories[i], JList(<<>>))])

empty_analysis ==
    JDict(<<Member("summary", JStr("")), Member("risks", JList(<<>>)),
            Member("assumptions", JList(<<>>))>>)

\* the documents the well-formed replies of the model stand for
ClassificationFound ==
    JDict([i \in 1..Len(required_categories) |->
        Member(required_categories[i],
               CASE required_categories[i] = "security" ->
                        JList(<<JStr("dynamic SQL built by concatenation")>>)
                 [] required_categories[i] = "uncertainty" ->
                        JList(<<JStr(" check nulls ")>>)
                 [] OTHER -> JList(<<>>))])

AnalysisFound ==
    JDict(<<Member("summary", JStr("Updates salaries.")),
            Member("risks", JList(<<JStr("check nulls")>>)),
            Member("assumptions", JList(<<JStr("no exception handler")>>))>>)

\* a classification whose one entry is a rated issue, not a string
ClassificationRated ==
    JDict([i \in 1..Len(required_categories) |->
        Member(required_categories[i],
               IF required_categories[i] = "security"
               THEN JList(<<JDict(<<Member("message", JStr("dynamic SQL built by concatenation")),
                                    Member("severity", JStr("high"))>>)>>)
               ELSE JList(<<>>))])

rated_classification_text == "{\"performance\": [], ... \"security\": [{\"message\": \"dynamic SQL built by concatenation\", \"severity\": \"high\"}], ...}"
classification_text == "{\"performance\": [], ... \"security\": [\"dynamic SQL built by concatenation\"], ... \"uncertainty\": [\" check nulls \"]}"
analysis_text == "{\"summary\": \"Updates salaries.\", \"risks\": [\"check nulls\"], \"assumptions\": [\"no exception handler\"]}"
single_quoted_text == "{'summary': 'Updates salaries.'}"

\* json.loads(raw): the parsed document, or the JSONDecodeError
json_loads(raw) ==
    CASE raw = classification_text -> Returns(ClassificationFound)
      [] raw = rated_classification_text -> Returns(ClassificationRated)
      [] raw = analysis_text -> Returns(AnalysisFound)
      [] raw = single_quoted_text ->
            Raise("JSONDecodeError", "Expecting property name enclosed in double quotes", "")
      [] OTHER -> Raise("JSONDecodeError", "Expecting value", "")

\* validate_summary(summary, code)
\* mutant: a summary that quotes SQL is rejected
validate_summary_RejectsSql(summary) ==
    IF summary = "" \/ Strip(summary) = ""
    THEN Raise("ValueError", "Summary is empty.", "")
    ELSE IF Contains(summary, "CREATE TABLE") \/ Contains(summary, "INSERT INTO")
    THEN Raise("ValueError", "Summary quotes SQL.", "")
    ELSE NoError

validate_summary(summary) ==
    IF summary = "" \/ Strip(summary) = ""
    THEN Raise("ValueError", "Summary is empty.", "")
    ELSE IF Contains(summary, "CREATE TABLE") \/ Contains(summary, "INSERT INTO")
    THEN NoError
    ELSE NoError

\* run_summary_step given the content of the service's reply
run_summary_step(content) ==
    LET raw == call_llm(content)
    IN  IF ~validate_summary(raw).ok THEN validate_summary(raw) ELSE Returns(Strip(raw))

\* run_refactor_step given the content of the service's reply
run_refactor_step(content) ==
    LET raw == Strip(call_llm(content))
    IN  IF raw = "" THEN Raise("ValueError", "Refactor output is empty.", "") ELSE Returns(raw)

\* the text the service has for a file: it differs between the directories
FreeTextOf(file) == IF file[1] = 1 THEN " Updates salaries. " ELSE "Loads orders."

\* what the service may answer to a free-text request about a file
FreeTextContents(file) == { JNull, JStr("   "), JStr(FreeTextOf(file)) }

\* what the service may answer to a structured request
StructuredContents ==
    { JNull, JStr(single_quoted_text), JStr(classification_text), JStr(analysis_text),
      JStr(rated_classification_text) }

(***************************************************************************)
(* bin/ai_plsql_review.py: the structured stages and their correction pass *)
(***************************************************************************)
\* the ValueError raised when the corrected reply does not parse either
StillInvalid(name, exc, exc2, raw, fixed_raw) ==
    [ok |-> FALSE, exc |-> "ValueError",
     msg |-> name \o " JSON still invalid after correction.", key |-> "",
     original_error |-> exc, correction_error |-> exc2,
     original_output |-> raw, corrected_output |-> fixed_raw]

\* the validator a structured stage hands its parsed reply to
Validate(name, data) ==
    IF name = "Classification" THEN validate_classification(data) ELSE validate_analysis(data)

\* the template a structured stage hands to the correction pass
JsonTemplate(name) ==
    IF name = "Classification"
    THEN "{\"performance\": [\"string\"], \"error_handling\": [\"string\"], \"logic_correctness\": [\"string\"], \"maintainability\": [\"string\"], \"security\": [\"string\"], \"data_integrity\": [\"string\"], \"uncertainty\": [\"string\"]}"
    ELSE "{\"summary\": \"string\", \"risks\": [\"string\"], \"assumptions\": [\"string\"]}"

\* modules/prompts.py: build_json_correction_prompt(raw_json, template)
build_json_correction_prompt(raw_json, template) ==
    [system_prompt |-> "You are a strict JSON repair assistant.",
     user_prompt |-> Strip("\n[ROLE]\nAct as a JSON repair tool.\n\n[TEMPLATE]\n" \o template
                           \o "\n\n[RAW_JSON]\n" \o raw_json \o "\n")]

\* mutant: the correction request quotes the source under review
CorrectionRequest_QuotesCode(name, code, raw) ==
    [system_prompt |-> "You are a strict JSON repair assistant.",
     user_prompt |-> build_json_correction_prompt(raw, JsonTemplate(name)).user_prompt
                     \o "\n\n[INPUT CODE]\n" \o code]

\* the request _correct_json sends from run_classification_step /
\* run_analysis_step (name) working on code, whose first reply was raw
CorrectionRequest(name, code, raw) ==
    build_json_correction_prompt(raw, JsonTemplate(name))

\* mutant: a reply that fails validation is sent to the correction pass too
FirstParse_CorrectsSchema(name, raw) ==
    LET parsed == json_loads(raw)
    IN  IF ~parsed.ok \/ ~Validate(name, parsed.value).ok
        THEN [next |-> "correct", exc |-> parsed]
        ELSE [next |-> "return", data |-> parsed.value]

\* run_*_step from the first json.loads on: the stage returns the data,
\* raises, or goes to the correction pass with the parse error
FirstParse(name, raw) ==
    LET parsed == json_loads(raw)
    IN  IF ~parsed.ok THEN [next |-> "correct", exc |-> parsed]
        ELSE IF Validate(name, parsed.value).ok
        THEN [next |-> "return", data |-> parsed.value]
        ELSE [next |-> "raise", exc |-> Validate(name, parsed.value)]

\* mutant: a corrected reply that does not parse is corrected again
CorrectedParse_Retries(name, raw, exc, fixed_raw) ==
    LET parsed == json_loads(fixed_raw)
    IN  IF ~parsed.ok THEN [next |-> "correct", exc |-> parsed]
        ELSE IF Validate(name, parsed.value).ok
        THEN [next |-> "return", data |-> parsed.value]
        ELSE [next |-> "raise", exc |-> Validate(name, parsed.value)]

\* mutant: the error of the second failure reports the corrected text only
CorrectedParse_DropsOriginal(name, raw, exc, fixed_raw) ==
    LET parsed == json_loads(fixed_raw)
    IN  IF ~parsed.ok
        THEN [next |-> "raise", exc |-> StillInvalid(name, parsed, parsed, fixed_raw, fixed_raw)]
        ELSE IF Validate(name, parsed.value).ok
        THEN [next |-> "return", data |-> parsed.value]
        ELSE [next |-> "raise", exc |-> Validate(name, parsed.value)]

\* run_*_step from the second json.loads on
CorrectedParse(name, raw, exc, fixed_raw) ==
    LET parsed == json_loads(fixed_raw)
    IN  IF ~parsed.ok
        THEN [next |-> "raise", exc |-> StillInvalid(name, exc, parsed, raw, fixed_raw)]
        ELSE IF Validate(name, parsed.value).ok
        THEN [next |-> "return", data |-> parsed.value]
        ELSE [next |-> "raise", exc |-> Validate(name, parsed.value)]

(***************************************************************************)
(* bin/ai_plsql_review.py and bin/legacy/plsql_review.py: orchestration    *)
(***************************************************************************)
\* most files a scanned tree holds
MaxFiles == 2
\* paths the glob can match
NumPaths == 3

\* a path is <<directory, base name>>: a/1.sql, a/2.sql, b/1.sql, b/2.sql, ...
Paths == { <<((k - 1) \div 2) + 1, ((k - 1) % 2) + 1>> : k \in 1..NumPaths }

\* the file the single-file entry point is given
InputFile == <<1, 1>>

\* p sorts before q: Path objects compare by their parts
PathLess(p, q) == p[1] < q[1] \/ (p[1] = q[1] /\ p[2] < q[2])

RECURSIVE sorted(_)
sorted(seq) ==
    IF Len(seq) = 0 THEN <<>>
    ELSE LET rest == sorted(Tail(seq))
             before(q) == PathLess(q, Head(seq))
             notBefore(q) == ~PathLess(q, Head(seq))
         IN  SelectSeq(rest, before) \o <<Head(seq)>> \o SelectSeq(rest, notBefore)

discover_files(root_listing) == sorted(root_listing)

\* path.read_text(): the file's text, which the model names after the file
ReadText(path) == [source_of |-> path]

NoLocal == [code |-> ReadText(<<0, 0>>), summary_text |-> "",
            classification |-> empty_classification, analysis |-> empty_analysis,
            raw |-> "", exc |-> NoError, fixed_raw |-> ""]

flags == [no_markdown |-> args.no_markdown, no_classification |-> args.no_classification,
          no_analysis |-> args.no_analysis, refactor |-> args.refactor]

path == files[cur]
base_name == path[2]

Request(stage, kind) == [path |-> path, stage |-> stage, kind |-> kind]
Parse(stage, ok) == [path |-> path, stage |-> stage, ok |-> ok]

\* build_markdown_report(...), kept symbolic
build_markdown_report(summary, classification, analysis) ==
    [kind |-> "markdown", summary |-> summary, classification |-> classification,
     analysis |-> analysis]

\* mutant: a failed file is recorded with a stub result
OnFileError_AppendsStub(res, p) ==
    Append(res, [path |-> p, risk_score |-> 0, summary |-> "", issues |-> <<>>,
                 refactor_suggestions |-> <<>>, checklist_items |-> <<>>])

\* main, lines 708-710: the results after the handler of a failed file
OnFileError(res, p) == res

\* mutant: the first failure ends the loop
AfterFileError_Stops(position) == Len(files) + 1

\* main, lines 695-710: the loop position after the handler of a failed file
AfterFileError(position) == position + 1

\* output_dir.mkdir(parents=True, exist_ok=True) where the output location
\* cannot be written
MkdirError == Raise("PermissionError", "Permission denied", "")

\* an exception leaves process_file (directory entry point: caught by main's
\* handler, which reports it and goes on; single-file entry point: it ends
\* the process); the locals stay as the traceback holds them
RaiseInFile(stage, exc) ==
    /\ stderr' = Append(stderr, [path |-> path, stage |-> stage, exc |-> exc])
    /\ run_logger' = NoLogger
    /\ IF args.entry = "directory"
       THEN /\ pc' = "loop"
            /\ cur' = AfterFileError(cur)
            /\ results' = OnFileError(results, path)
            /\ UNCHANGED exit_code
       ELSE /\ pc' = "done"
            /\ exit_code' = 1
            /\ UNCHANGED <<cur, results>>

\* the `if not flags.get(...)` / `if flags.get("refactor")` heads of the
\* stages: the logger and the statement reached
\* mutant: a refactor stage that is not asked for leaves no entry
EnterRefactor_LogsNothing(rl) ==
    IF args.refactor
    THEN [rl |-> log_step(rl, "refactor", "started"), pc |-> "refactor"]
    ELSE [rl |-> rl, pc |-> "finish_file"]

EnterRefactor(rl) ==
    IF args.refactor
    THEN [rl |-> log_step(rl, "refactor", "started"), pc |-> "refactor"]
    ELSE [rl |-> log_step(rl, "refactor", "skipped"), pc |-> "finish_file"]

\* mutant: the analysis stage runs whatever its flag says
EnterAnalysis_IgnoresFlag(rl) ==
    [rl |-> log_step(rl, "analysis", "started"), pc |-> "analysis"]

EnterAnalysis(rl) ==
    IF ~args.no_analysis
    THEN [rl |-> log_step(rl, "analysis", "started"), pc |-> "analysis"]
    ELSE EnterRefactor(log_step(rl, "analysis", "skipped"))

EnterClassification(rl) ==
    IF ~args.no_classification
    THEN [rl |-> log_step(rl, "classification", "started"), pc |-> "classification"]
    ELSE EnterAnalysis(log_step(rl, "classification", "skipped"))

\* what follows the success of a stage
AfterStage(stage, rl) ==
    CASE stage = "summary" -> EnterClassification(rl)
      [] stage = "classification" -> EnterAnalysis(rl)
      [] stage = "analysis" -> EnterRefactor(rl)
      [] stage = "refactor" -> [rl |-> rl, pc |-> "finish_file"]

\* process_file after a stage has returned: its success is logged, its
\* artifact written and registered, and the next stage entered
StageDone(stage, kind, suffix, content, newLocal) ==
    LET name == <<"output", base_name, suffix>>
        rl == add_output(log_step(run_logger, stage, "success"), kind, name, content)
    IN  /\ disk' = WriteText(disk, name, content)
        /\ run_logger' = AfterStage(stage, rl).rl
        /\ pc' = AfterStage(stage, rl).pc
        /\ local' = newLocal
        /\ UNCHANGED <<cur, results, stderr, exit_code>>

(***************************************************************************)
(* The run                                                                 *)
(***************************************************************************)
Orderings(S) ==
    { f \in [1..Cardinality(S) -> S] : \A i, j \in 1..Cardinality(S) : f[i] = f[j] => i = j }

Listings(a) ==
    IF ~a.path_exists THEN { <<>> }
    ELSE IF a.entry = "single" THEN { <<InputFile>> }
    ELSE UNION { Orderings(S) : S \in {T \in SUBSET Paths : Cardinality(T) <= MaxFiles} }

FnOff == fn = "off" /\ input = NoError /\ output = NoError /\ updaters = <<>>

Init ==
    /\ args \in [entry : {"directory", "single"}, path_exists : BOOLEAN, dry_run : BOOLEAN,
                 no_markdown : BOOLEAN, no_classification : BOOLEAN,
                 no_analysis : BOOLEAN, refactor : BOOLEAN, output_writable : BOOLEAN]
    /\ listing \in Listings(args)
    /\ files = <<>>
    /\ pc = "start"
    /\ cur = 1
    /\ local = NoLocal
    /\ run_logger = NoLogger
    /\ results = <<>>
    /\ stderr = <<>>
    /\ exit_code = -1
    /\ dirs = {}
    /\ disk = <<>>
    /\ requests = <<>>
    /\ parses = <<>>
    /\ attempted = <<>>
    /\ FnOff

\* the harnesses leave the pipeline where no action of it is enabled
PipelineAtRest ==
    /\ args = [entry |-> "directory", path_exists |-> FALSE, dry_run |-> FALSE,
               no_markdown |-> FALSE, no_classification |-> FALSE,
               no_analysis |-> FALSE, refactor |-> FALSE, output_writable |-> TRUE]
    /\ listing = <<>>
    /\ files = <<>>
    /\ pc = "off"
    /\ cur = 1
    /\ local = NoLocal
    /\ run_logger = NoLogger
    /\ results = <<>>
    /\ stderr = <<>>
    /\ exit_code = -1
    /\ dirs = {}
    /\ requests = <<>>
    /\ parses = <<>>
    /\ attempted = <<>>

PipelineOff == PipelineAtRest /\ disk = <<>>

\* mutant: a missing path is not looked for
MissingInput_Ignored(a) == FALSE

\* `if not root.exists()` / `if not input_path.is_file()`
MissingInput(a) == ~a.path_exists

MainStart_NoEarlyReturn ==
    /\ pc = "start"
    /\ args.entry = "directory"
    /\ IF MissingInput(args)
       THEN pc' = "done" /\ exit_code' = 1 /\ UNCHANGED <<files, listing>>
       ELSE /\ files' = discover_files(listing)
            /\ listing' = <<>>
            /\ pc' = "loop" /\ UNCHANGED exit_code
    /\ UNCHANGED <<args, cur, local, run_logger, results, stderr, dirs, disk,
                   requests, parses, attempted, fnVars>>

\* ai_plsql_review.main up to the loop: the root is resolved, the files
\* are discovered
MainStart ==
    /\ pc = "start"
    /\ args.entry = "directory"
    /\ IF MissingInput(args)
       THEN pc' = "done" /\ exit_code' = 1 /\ UNCHANGED <<files, listing>>
       ELSE /\ files' = discover_files(listing)
            /\ listing' = <<>>
            /\ IF Len(listing) = 0
               THEN pc' = "done" /\ exit_code' = 0
               ELSE pc' = "loop" /\ UNCHANGED exit_code
    /\ UNCHANGED <<args, cur, local, run_logger, results, stderr, dirs, disk,
                   requests, parses, attempted, fnVars>>

\* ai_plsql_review.process_file up to the first request: the file is read;
\* a dry run prints the prompts and returns a stub; a real run creates the
\* logger and the run directories
ProcessFileBegin ==
    /\ pc = "loop"
    /\ cur <= Len(files)
    /\ attempted' = Append(attempted, path)
    /\ \E readable \in BOOLEAN :
        IF ~readable
        THEN /\ RaiseInFile("read", Raise("OSError", "cannot read the file", ""))
             /\ local' = NoLocal
             /\ UNCHANGED dirs
        ELSE IF args.dry_run
        THEN /\ results' = Append(results,
                    [path |-> path, risk_score |-> 0, summary |-> "", issues |-> <<>>,
                     refactor_suggestions |-> <<>>, checklist_items |-> <<>>])
             /\ cur' = cur + 1
             /\ UNCHANGED <<pc, local, run_logger, stderr, exit_code, dirs>>
        ELSE IF ~args.output_writable
        THEN /\ RaiseInFile("mkdir", MkdirError)
             /\ local' = [NoLocal EXCEPT !.code = ReadText(path)]
             /\ UNCHANGED dirs
        ELSE /\ local' = [NoLocal EXCEPT !.code = ReadText(path)]
             /\ run_logger' = log_step(RunLogger(path, Sha256(ReadText(path)), flags),
                                       "summary", "started")
             /\ dirs' = dirs \cup {"output", "log"}
             /\ pc' = "summary"
             /\ UNCHANGED <<cur, results, stderr, exit_code>>
    /\ UNCHANGED <<args, listing, files, disk, requests, parses, fnVars>>

\* legacy plsql_review.main up to the first request: the input file is
\* resolved, the output directory created, the file read; a dry run prints
\* the prompts and returns
LegacyStart ==
    /\ pc = "start"
    /\ args.entry = "single"
    /\ IF MissingInput(args)
       THEN /\ pc' = "done"
            /\ exit_code' = 1
            /\ UNCHANGED <<files, local, run_logger, stderr, dirs, attempted>>
       ELSE IF ~args.output_writable
       THEN /\ files' = listing
            /\ attempted' = Append(attempted, InputFile)
            /\ stderr' = Append(stderr, [path |-> InputFile, stage |-> "mkdir",
                                         exc |-> MkdirError])
            /\ pc' = "done"
            /\ exit_code' = 1
            /\ UNCHANGED <<local, run_logger, dirs>>
       ELSE /\ files' = listing
            /\ dirs' = dirs \cup {"output"}
            /\ attempted' = Append(attempted, InputFile)
            /\ \E readable \in BOOLEAN :
                IF ~readable
                THEN /\ stderr' = Append(stderr,
                            [path |-> InputFile, stage |-> "read",
                             exc |-> Raise("OSError", "cannot read the file", "")])
                     /\ pc' = "done"
                     /\ exit_code' = 1
                     /\ UNCHANGED <<local, run_logger>>
                ELSE IF args.dry_run
                THEN /\ pc' = "done"
                     /\ exit_code' = 0
                     /\ UNCHANGED <<local, run_logger, stderr>>
                ELSE /\ local' = [NoLocal EXCEPT !.code = ReadText(InputFile)]
                     /\ run_logger' = log_step(RunLogger(InputFile, Sha256(ReadText(InputFile)), flags),
                                               "summary", "started")
                     /\ pc' = "summary"
                     /\ UNCHANGED <<stderr, exit_code>>
    /\ UNCHANGED <<args, listing, cur, results, disk, requests, parses, fnVars>>

\* run_summary_step and the statements up to the next request
SummaryStep ==
    /\ pc = "summary"
    /\ requests' = Append(requests, Request("summary", "stage"))
    /\ \E content \in FreeTextContents(path) :
        LET summary_text == run_summary_step(content)
        IN  IF ~summary_text.ok
            THEN RaiseInFile("summary", summary_text) /\ UNCHANGED <<disk, local>>
            ELSE StageDone("summary", "summary_json", "_summary.json",
                           json_dumps([summary |-> summary_text.value]),
                           [local EXCEPT !.summary_text = summary_text.value])
    /\ UNCHANGED <<args, listing, files, dirs, parses, attempted, fnVars>>

\* run_classification_step up to its return, its raise or the correction request
ClassificationStep ==
    /\ pc = "classification"
    /\ requests' = Append(requests,
            Request("classification", "stage"))
    /\ \E content \in StructuredContents :
        LET raw == Strip(call_llm(content))
            out == FirstParse("Classification", raw)
        IN  /\ parses' = Append(parses, Parse("classification", json_loads(raw).ok))
            /\ CASE out.next = "correct" ->
                        /\ pc' = "classification_correction"
                        /\ local' = [local EXCEPT !.raw = raw, !.exc = out.exc]
                        /\ UNCHANGED <<cur, run_logger, results, stderr, exit_code, disk>>
                 [] out.next = "raise" ->
                        /\ RaiseInFile("classification", out.exc)
                        /\ local' = [local EXCEPT !.raw = raw]
                        /\ UNCHANGED disk
                 [] out.next = "return" ->
                        StageDone("classification", "classification_json",
                                  "_classification.json", json_dumps(out.data),
                                  [local EXCEPT !.classification = out.data])
    /\ UNCHANGED <<args, listing, files, dirs, attempted, fnVars>>

\* run_classification_step from _correct_json on
ClassificationCorrection ==
    /\ pc = "classification_correction"
    /\ requests' = Append(requests,
            Request("classification", "correction"))
    /\ \E content \in StructuredContents :
        LET fixed_raw == Strip(call_llm(content))
            out == CorrectedParse("Classification", local.raw, local.exc, fixed_raw)
        IN  /\ parses' = Append(parses, Parse("classification", json_loads(fixed_raw).ok))
            /\ CASE out.next = "correct" ->
                        /\ pc' = "classification_correction"
                        /\ local' = [local EXCEPT !.raw = fixed_raw, !.exc = out.exc]
                        /\ UNCHANGED <<cur, run_logger, results, stderr, exit_code, disk>>
                 [] out.next = "raise" ->
                        /\ RaiseInFile("classification", out.exc)
                        /\ local' = [local EXCEPT !.fixed_raw = fixed_raw]
                        /\ UNCHANGED disk
                 [] out.next = "return" ->
                        StageDone("classification", "classification_json",
                                  "_classification.json", json_dumps(out.data),
                                  [local EXCEPT !.classification = out.data,
                                                !.fixed_raw = fixed_raw])
    /\ UNCHANGED <<args, listing, files, dirs, attempted, fnVars>>

\* run_analysis_step up to its return, its raise or the correction request
AnalysisStep ==
    /\ pc = "analysis"
    /\ requests' = Append(requests,
            Request("analysis", "stage"))
    /\ \E content \in StructuredContents :
        LET raw == Strip(call_llm(content))
            out == FirstParse("Analysis", raw)
        IN  /\ parses' = Append(parses, Parse("analysis", json_loads(raw).ok))
            /\ CASE out.next = "correct" ->
                        /\ pc' = "analysis_correction"
                        /\ local' = [local EXCEPT !.raw = raw, !.exc = out.exc]
                        /\ UNCHANGED <<cur, run_logger, results, stderr, exit_code, disk>>
                 [] out.next = "raise" ->
                        /\ RaiseInFile("analysis", out.exc)
                        /\ local' = [local EXCEPT !.raw = raw]
                        /\ UNCHANGED disk
                 [] out.next = "return" ->
                        StageDone("analysis", "analysis_json", "_analysis.json",
                                  json_dumps(out.data),
                                  [local EXCEPT !.analysis = out.data])
    /\ UNCHANGED <<args, listing, files, dirs, attempted, fnVars>>

\* run_analysis_step from _correct_json on
AnalysisCorrection ==
    /\ pc = "analysis_correction"
    /\ requests' = Append(requests,
            Request("analysis", "correction"))
    /\ \E content \in StructuredContents :
        LET fixed_raw == Strip(call_llm(content))
            out == CorrectedParse("Analysis", local.raw, local.exc, fixed_raw)
        IN  /\ parses' = Append(parses, Parse("analysis", json_loads(fixed_raw).ok))
            /\ CASE out.next = "correct" ->
                        /\ pc' = "analysis_correction"
                        /\ local' = [local EXCEPT !.raw = fixed_raw, !.exc = out.exc]
                        /\ UNCHANGED <<cur, run_logger, results, stderr, exit_code, disk>>
                 [] out.next = "raise" ->
                        /\ RaiseInFile("analysis", out.exc)
                        /\ local' = [local EXCEPT !.fixed_raw = fixed_raw]
                        /\ UNCHANGED disk
                 [] out.next = "return" ->
                        StageDone("analysis", "analysis_json", "_analysis.json",
                                  json_dumps(out.data),
                                  [local EXCEPT !.analysis = out.data,
                                                !.fixed_raw = fixed_raw])
    /\ UNCHANGED <<args, listing, files, dirs, attempted, fnVars>>

\* run_refactor_step and the statements up to the Markdown report
RefactorStep ==
    /\ pc = "refactor"
    /\ requests' = Append(requests,
            Request("refactor", "stage"))
    /\ \E content \in FreeTextContents(path) :
        LET refactored == run_refactor_step(content)
        IN  IF ~refactored.ok
            THEN RaiseInFile("refactor", refactored) /\ UNCHANGED <<disk, local>>
            ELSE StageDone("refactor", "refactor_sql", "_refactor.sql", refactored.value, local)
    /\ UNCHANGED <<args, listing, files, dirs, parses, attempted, fnVars>>

\* the rest of process_file (legacy main): the Markdown report, the run
\* record, the index, the derived fields and the result handed to main
FinishFile ==
    /\ pc = "finish_file"
    /\ LET rewritten ==
               IF args.entry = "single"
               THEN WriteText(WriteText(WriteText(disk,
                        <<"output", base_name, "_summary.json">>,
                        json_dumps([summary |-> local.summary_text])),
                        <<"output", base_name, "_classification.json">>,
                        json_dumps(local.classification)),
                        <<"output", base_name, "_analysis.json">>,
                        json_dumps(local.analysis))
               ELSE disk
           report_md == build_markdown_report(local.summary_text, local.classification,
                                              local.analysis)
           report_path == <<"output", base_name, "_review.md">>
           reported == IF ~args.no_markdown THEN WriteText(rewritten, report_path, report_md)
                       ELSE rewritten
           rl == IF ~args.no_markdown
                 THEN add_output(run_logger, "markdown_report", report_path, report_md)
                 ELSE run_logger
           runlog_path == <<"log", base_name, "_runlog.json">>
           logged == RunLoggerWrite(reported, rl, base_name)
           indexed == _update_global_index(logged, runlog_path, rl)
           issues == _flatten_issues_from_classification(local.classification)
           risk_score == _compute_risk_score(local.classification, local.analysis)
           checklist_items == _derive_checklist_items(local.classification, local.analysis)
           refactor_suggestions ==
               _derive_refactor_suggestions(local.classification, local.analysis)
           derived == <<issues, risk_score, checklist_items, refactor_suggestions>>
       IN  /\ disk' = indexed
           /\ dirs' = dirs \cup {"log"}
           /\ IF args.entry = "single"
              THEN /\ pc' = "done"
                   /\ exit_code' = 0
                   /\ local' = NoLocal
                   /\ run_logger' = NoLogger
                   /\ UNCHANGED <<cur, results, stderr>>
              ELSE IF FirstError(derived) # 0
              THEN /\ RaiseInFile("derive", derived[FirstError(derived)])
                   /\ UNCHANGED local
              ELSE /\ results' = Append(results,
                          [path |-> path, risk_score |-> risk_score.value,
                           summary |-> local.summary_text, issues |-> issues.value,
                           refactor_suggestions |-> refactor_suggestions.value,
                           checklist_items |-> checklist_items.value])
                   /\ cur' = cur + 1
                   /\ pc' = "loop"
                   /\ local' = NoLocal
                   /\ run_logger' = NoLogger
                   /\ UNCHANGED <<stderr, exit_code>>
    /\ UNCHANGED <<args, listing, files, requests, parses, attempted, fnVars>>

\* render of write_summary_md, kept symbolic
summary_md(summary) == [kind |-> "markdown", summary |-> summary]

\* main after the loop: the aggregate is built and written twice
Aggregate ==
    /\ pc = "loop"
    /\ cur > Len(files)
    /\ LET summary == aggregate_results("run-1", results)
       IN  IF ~summary.ok
           THEN /\ stderr' = Append(stderr, [path |-> <<0, 0>>, stage |-> "aggregate",
                                             exc |-> summary])
                /\ exit_code' = 1
                /\ UNCHANGED <<dirs, disk>>
           ELSE IF ~args.output_writable
           THEN /\ stderr' = Append(stderr, [path |-> <<0, 0>>, stage |-> "write_summary_json",
                                             exc |-> MkdirError])
                /\ exit_code' = 1
                /\ UNCHANGED <<dirs, disk>>
           ELSE /\ dirs' = dirs \cup {"output"}
                /\ disk' = WriteText(WriteText(disk, <<"output", 0, "summary.json">>,
                                               json_dumps(summary.value)),
                                     <<"output", 0, "summary.md">>, summary_md(summary.value))
                /\ exit_code' = 0
                /\ UNCHANGED stderr
    /\ pc' = "done"
    /\ UNCHANGED <<args, listing, files, cur, local, run_logger, results, requests, parses,
                   attempted, fnVars>>

Next ==
    \/ MainStart
    \/ LegacyStart
    \/ ProcessFileBegin
    \/ SummaryStep
    \/ ClassificationStep
    \/ ClassificationCorrection
    \/ AnalysisStep
    \/ AnalysisCorrection
    \/ RefactorStep
    \/ FinishFile
    \/ Aggregate

Spec == Init /\ [][Next]_vars

\* the positions of the program
Positions ==
    {"start", "loop", "summary", "classification", "classification_correction",
     "analysis", "analysis_correction", "refactor", "finish_file", "done"}

\* the program moves on: its position or the file it is at changes
Advance ==
    /\ pc # "done"
    /\ pc' \in Positions
    /\ cur' \in 1..(MaxFiles + 1)
    /\ <<pc', cur'>> # <<pc, cur>>

\* the run where every request to the service returns: main is one
\* sequential computation without a loop other than the one over the files,
\* so while it has not returned it moves on from where it is
SpecLive == Spec /\ WF_<<pc, cur>>(Advance)

(***************************************************************************)
(* Inputs of the validator harness                                         *)
(***************************************************************************)
\* how many members of a drawn document may deviate from an empty list
MaxOdd == 2

Absent == [t |-> "absent", v |-> 0]

\* a document with the members of keyseq, in that order, leaving out the
\* keys that assign maps to Absent
MakeDoc(keyseq, assign) ==
    LET there(key) == assign[key] # Absent
        kept == SelectSeq(keyseq, there)
    IN  JDict([i \in 1..Len(kept) |-> Member(kept[i], assign[kept[i]])])

Range(seq) == {seq[i] : i \in 1..Len(seq)}

\* "notes" stands for any key outside the stage's contract
classification_keys == required_categories \o <<"notes">>
analysis_keys == required_analysis \o <<"suggestions">>

OddValues ==
    { Absent,
      JList(<<>>),
      JList(<<JStr("cursor loop without bulk collect")>>),
      JList(<<JStr("commit inside loop"), JNum(1)>>),
      JStr("none"),
      JNum(0) }

Deviations(keyseq) ==
    UNION { [S -> OddValues] :
            S \in {T \in SUBSET Range(keyseq) : Cardinality(T) <= MaxOdd} }

ClassificationInputs ==
    { MakeDoc(classification_keys,
              [key \in Range(classification_keys) |->
                  IF key \in DOMAIN dev THEN dev[key]
                  ELSE IF key = "notes" THEN Absent ELSE JList(<<>>)]) :
      dev \in Deviations(classification_keys) }
    \cup { JList(<<>>), JNum(7) }

AnalysisValues ==
    { Absent, JStr("updates salaries"), JNum(3), JList(<<>>),
      JList(<<JStr("no exception handler")>>),
      JList(<<JStr("table exists"), JNull>>) }

AnalysisInputs ==
    { MakeDoc(analysis_keys, assign) :
      assign \in [Range(analysis_keys) -> AnalysisValues] }
    \cup { JList(<<>>), JNum(7) }

(***************************************************************************)
(* Validator harness: one reply is drawn, its stage's validator is applied *)
(***************************************************************************)
InitValidator ==
    /\ PipelineOff
    /\ updaters = <<>>
    /\ fn = "none"
    /\ input \in { [kind |-> "classification", data |-> d] : d \in ClassificationInputs }
            \cup { [kind |-> "analysis", data |-> d] : d \in AnalysisInputs }
    /\ output = NoError

ValidateClassification ==
    /\ fn = "none"
    /\ input.kind = "classification"
    /\ fn' = "validate_classification"
    /\ output' = validate_classification(input.data)
    /\ UNCHANGED <<input, updaters, pipeVars>>

ValidateAnalysis ==
    /\ fn = "none"
    /\ input.kind = "analysis"
    /\ fn' = "validate_analysis"
    /\ output' = validate_analysis(input.data)
    /\ UNCHANGED <<input, updaters, pipeVars>>

NextValidator == ValidateClassification \/ ValidateAnalysis

SpecValidator == InitValidator /\ [][NextValidator]_vars

(***************************************************************************)
(* Per-file aggregator harness: a classification and an analysis are drawn *)
(* and one of the per-file functions is applied                            *)
(***************************************************************************)
\* longest category list of a drawn classification
MaxItems == 2

SeverityValues ==
    { JNull, JStr(""), JStr("low"), JStr("medium"), JStr("high"), JStr("critical"),
      JStr("HIGH"), JStr("Critical"), JStr("Blocker"), JStr("urgent"), JNum(3) }

IssueItems ==
    { JStr("dynamic SQL built by concatenation"),
      JDict(<<Member("message", JStr("missing WHEN OTHERS"))>>),
      JDict(<<Member("message", JStr("row-by-row insert")),
              Member("recommendation", JStr(" use FORALL "))>>),
      JDict(<<Member("message", JStr("hard-coded schema")),
              Member("category", JStr("style")), Member("code", JStr("STY-7"))>>) }
    \cup { JDict(<<Member("message", JStr("unbounded cursor")), Member("severity", sv)>>) :
           sv \in SeverityValues }

ItemLists == UNION { [1..n -> IssueItems] : n \in 0..MaxItems }

UncertaintyValues ==
    { Absent, JList(<<>>), JList(<<JStr(" check nulls "), JStr("check nulls ")>>), JStr("n/a") }

\* a classification whose one key is no category but a severity name
SeverityKeyed == JDict(<<Member("critical", JList(<<JStr("X")>>))>>)

PerFileClassifications ==
    { MakeDoc(<<"security", "uncertainty">>,
              [key \in {"security", "uncertainty"} |->
                  IF key = "security" THEN JList(items) ELSE unc]) :
      items \in ItemLists, unc \in UncertaintyValues }
    \cup { SeverityKeyed }

PerFileAnalyses ==
    { JDict(<<Member("summary", JStr("")), Member("risks", JList(<<>>)),
              Member("assumptions", JList(<<>>))>>),
      JDict(<<Member("summary", JStr("Updates salaries.")),
              Member("risks", JList(<<JStr("check nulls"), JStr(" ")>>)),
              Member("assumptions", JList(<<JStr(" check nulls ")>>))>>),
      JDict(<<Member("summary", JStr("Updates salaries.")),
              Member("risks", JList(<<JStr("no exception handler")>>)),
              Member("assumptions", JList(<<>>)),
              Member("suggestions", JList(<<JStr(" use bind variables")>>))>>),
      JDict(<<Member("summary", JStr("Rebuilds the ledger.")),
              Member("risks", JList(<<JStr("commit inside loop"), JStr("no exception handler"),
                                      JStr("implicit conversion"), JStr("unbounded cursor"),
                                      JStr("dynamic SQL"), JStr("missing index"),
                                      JStr("hard-coded schema"), JStr("no bulk collect")>>)),
              Member("assumptions", JList(<<>>))>>) }

InitPerFile ==
    /\ PipelineOff
    /\ updaters = <<>>
    /\ fn = "none"
    /\ input \in [classification : PerFileClassifications, analysis : PerFileAnalyses]
    /\ output = NoError

FlattenIssues ==
    /\ fn = "none"
    /\ fn' = "_flatten_issues_from_classification"
    /\ output' = _flatten_issues_from_classification(input.classification)
    /\ UNCHANGED <<input, updaters, pipeVars>>

ComputeRiskScore ==
    /\ fn = "none"
    /\ fn' = "_compute_risk_score"
    /\ output' = _compute_risk_score(input.classification, input.analysis)
    /\ UNCHANGED <<input, updaters, pipeVars>>

DeriveChecklistItems ==
    /\ fn = "none"
    /\ fn' = "_derive_checklist_items"
    /\ output' = _derive_checklist_items(input.classification, input.analysis)
    /\ UNCHANGED <<input, updaters, pipeVars>>

DeriveRefactorSuggestions ==
    /\ fn = "none"
    /\ fn' = "_derive_refactor_suggestions"
    /\ output' = _derive_refactor_suggestions(input.classification, input.analysis)
    /\ UNCHANGED <<input, updaters, pipeVars>>

NextPerFile ==
    \/ FlattenIssues
    \/ ComputeRiskScore
    \/ DeriveChecklistItems
    \/ DeriveRefactorSuggestions

SpecPerFile == InitPerFile /\ [][NextPerFile]_vars

(***************************************************************************)
(* aggregate_results applied to the results of bounded sets of files       *)
(***************************************************************************)
\* most files of a drawn run
MaxResults == 3

\* the dict process_file returns for a file whose stages gave these documents
FileResultOf(file, classification, analysis) ==
    [path |-> file,
     risk_score |-> _compute_risk_score(classification, analysis).value,
     summary |-> "Updates salaries.",
     issues |-> _flatten_issues_from_classification(classification).value,
     refactor_suggestions |-> _derive_refactor_suggestions(classification, analysis).value,
     checklist_items |-> _derive_checklist_items(classification, analysis).value]

ReviewItem(sev) ==
    JDict(<<Member("message", JStr("unbounded cursor")), Member("severity", JStr(sev))>>)

ReviewItemLists ==
    { <<>>, <<JStr("dynamic SQL built by concatenation")>>,
      <<ReviewItem("HIGH")>>, <<ReviewItem("critical")>>,
      <<ReviewItem("low"), ReviewItem("high")>> }

ReviewAnalyses ==
    { JDict(<<Member("summary", JStr("")), Member("risks", JList(<<>>)),
              Member("assumptions", JList(<<>>))>>),
      JDict(<<Member("summary", JStr("Updates salaries.")),
              Member("risks", JList(<<JStr("check nulls")>>)),
              Member("assumptions", JList(<<JStr("no exception handler")>>))>>),
      JDict(<<Member("summary", JStr("Rebuilds the ledger.")),
              Member("risks", JList(<<JStr("no exception handler")>>)),
              Member("assumptions", JList(<<>>))>>) }

\* the classification and analysis of one reviewed file
Reviews ==
    { [classification |-> MakeDoc(<<"security", "uncertainty">>,
                                  [key \in {"security", "uncertainty"} |->
                                      IF key = "security" THEN JList(items) ELSE Absent]),
       analysis |-> a] : items \in ReviewItemLists, a \in ReviewAnalyses }

InitAggregate ==
    /\ PipelineOff
    /\ updaters = <<>>
    /\ fn = "none"
    /\ input = <<>>
    /\ output = NoError

\* one more file of the run completes: its result joins file_results
CompleteFile ==
    /\ fn = "none"
    /\ Len(input) < MaxResults
    /\ \E r \in Reviews :
           input' = Append(input, FileResultOf(<<1, Len(input) + 1>>,
                                               r.classification, r.analysis))
    /\ UNCHANGED <<fn, output, updaters, pipeVars>>

AggregateResults ==
    /\ fn = "none"
    /\ fn' = "aggregate_results"
    /\ output' = aggregate_results("run-1", input)
    /\ UNCHANGED <<input, updaters, pipeVars>>

NextAggregate ==
    \/ CompleteFile
    \/ AggregateResults

SpecAggregate == InitAggregate /\ [][NextAggregate]_vars

(***************************************************************************)
(* _update_global_index run by two runs that share the log location        *)
(***************************************************************************)
\* most index updates of one run
MaxUpdates == 2

Runs == {1, 2}

\* the run record and the index entry of update k of run r
UpdateLogger(r, k) == RunLogger(<<r, k>>, Sha256(ReadText(<<r, k>>)), <<>>)
UpdateEntry(r, k) == IndexEntry(<<"log", 10 * r + k, "_runlog.json">>, UpdateLogger(r, k))

\* an entry an earlier run left in the index
OldEntry == UpdateEntry(9, 1)

\* the log location before the runs: no index file, an index with no or
\* one entry, a JSON document that is no list, a file that is no JSON
InitialDisks ==
    { <<>> } \cup
    { WriteText(<<>>, index_path, content) :
        content \in { json_dumps(JList(<<>>)), json_dumps(JList(<<OldEntry>>)),
                      json_dumps(JDict(<<>>)), [kind |-> "text", value |-> JNull] } }

InitIndex ==
    /\ PipelineAtRest
    /\ disk \in InitialDisks
    /\ fn = "_update_global_index"
    /\ input = disk
    /\ output = NoError
    /\ updaters = [r \in Runs |-> [pc |-> "idle", existing |-> <<>>, done |-> 0]]

\* run r enters _update_global_index and reads the index file
ReadIndex(r) ==
    /\ updaters[r].pc = "idle"
    /\ updaters[r].done < MaxUpdates
    /\ updaters' = [updaters EXCEPT ![r].pc = "loaded", ![r].existing = LoadIndex(disk)]
    /\ UNCHANGED <<disk, restVars, fn, input, output>>

\* run r appends its entry to what it read and writes the index file
WriteIndex(r) ==
    /\ updaters[r].pc = "loaded"
    /\ disk' = StoreIndex(disk, updaters[r].existing,
                          <<"log", 10 * r + updaters[r].done + 1, "_runlog.json">>,
                          UpdateLogger(r, updaters[r].done + 1))
    /\ updaters' = [updaters EXCEPT ![r].pc = "idle", ![r].existing = <<>>,
                                    ![r].done = updaters[r].done + 1]
    /\ UNCHANGED <<restVars, fn, input, output>>

NextIndex == \E r \in Runs : ReadIndex(r) \/ WriteIndex(r)

SpecIndex == InitIndex /\ [][NextIndex]_vars

(***************************************************************************)
(* bin/ai_ci_gate.py: the CI gate. Its outcome is the exit status, the     *)
(* gate document written (JNull where none is), and the effects in order   *)
(***************************************************************************)
JBool(b) == [t |-> "bool", v |-> b]

\* the names the module modules/llm_client.py binds
llm_client_names == {"os", "Optional", "OpenAI", "_get_client", "call_llm"}

GateOutcome(exit, document, effects) ==
    [exit |-> exit, document |-> document, effects |-> effects]

\* an exception main does not catch: the traceback, exit status 1
GateCrash(exc, effects) == GateOutcome(1, JNull, Append(effects, exc))

\* `for r in reasons` accepts a list, a dict or a str
Iterable(x) == x.t \in {"list", "dict", "str"}

\* mutant: the deploy is blocked before the document is written
GateDecision_BlocksFirst(a, result) ==
    IF ~IsDict(result) THEN GateCrash("AttributeError", <<>>)
    ELSE IF ~Truthy(IF HasKey(result, "deploy_ok") THEN Get(result, "deploy_ok") ELSE JBool(FALSE))
    THEN GateOutcome(1, JNull, <<"print_result", "blocking_deploy">>)
    ELSE GateOutcome(0, JNull, <<"print_result", "ok_to_deploy">>)

\* main from line 59 on: the result is read, printed, written where an
\* output directory is given, and the deploy blocked or let through
GateDecision(a, result) ==
    IF ~IsDict(result) THEN GateCrash("AttributeError", <<>>)
    ELSE
    LET deploy_ok == Truthy(IF HasKey(result, "deploy_ok") THEN Get(result, "deploy_ok")
                            ELSE JBool(FALSE))
        reasons == IF HasKey(result, "reasons") THEN Get(result, "reasons") ELSE JList(<<>>)
        severity == IF HasKey(result, "severity") THEN Get(result, "severity")
                    ELSE JStr("unknown")
        document == JDict(<<Member("run_id", JStr("run-1")),
                            Member("deploy_ok", JBool(deploy_ok)),
                            Member("severity", severity),
                            Member("reasons", reasons)>>)
        written == IF a.output_dir THEN document ELSE JNull
        effects == IF a.output_dir THEN <<"print_result", "mkdir", "write_document">>
                   ELSE <<"print_result">>
    IN  IF ~Iterable(reasons) THEN GateCrash("TypeError", <<"print_result">>)
        ELSE IF a.output_dir /\ ~a.output_writable
        THEN GateCrash("PermissionError", <<"print_result">>)
        ELSE IF ~deploy_ok
        THEN GateOutcome(1, written, Append(effects, "blocking_deploy"))
        ELSE GateOutcome(0, written, Append(effects, "ok_to_deploy"))

\* main: a.llm_client is the set of names the imported client module binds
ai_ci_gate_main(a, result) ==
    IF ~a.log_exists THEN GateOutcome(1, JNull, <<"log_file_not_found">>)
    ELSE IF "review_ci_logs" \notin a.llm_client THEN GateCrash("AttributeError", <<>>)
    ELSE GateDecision(a, result)

(***************************************************************************)
(* The gate applied to bounded sets of command lines and service results   *)
(***************************************************************************)
DeployOkValues ==
    { Absent, JBool(TRUE), JBool(FALSE), JNull, JNum(0), JNum(1), JStr(""), JStr("false"),
      JList(<<>>) }

ReasonsValues == { Absent, JList(<<>>), JList(<<JStr("ORA-00942 in step 3")>>), JNull }

GateResults ==
    { MakeDoc(<<"deploy_ok", "reasons", "severity">>,
              [key \in {"deploy_ok", "reasons", "severity"} |->
                  IF key = "deploy_ok" THEN ok ELSE IF key = "reasons" THEN reasons ELSE sev]) :
      ok \in DeployOkValues, reasons \in ReasonsValues, sev \in {Absent, JStr("high")} }
    \cup { JList(<<>>) }

\* the client module as the repository has it, and with a review_ci_logs
\* added to it as the comment in main asks
GateClients == { llm_client_names, llm_client_names \cup {"review_ci_logs"} }

InitGate ==
    /\ PipelineOff
    /\ updaters = <<>>
    /\ fn = "none"
    /\ input \in [args : [log_exists : BOOLEAN, output_dir : BOOLEAN,
                           output_writable : BOOLEAN, llm_client : GateClients],
                   result : GateResults]
    /\ output = NoError

GateMain ==
    /\ fn = "none"
    /\ fn' = "ai_ci_gate.main"
    /\ output' = ai_ci_gate_main(input.args, input.result)
    /\ UNCHANGED <<input, updaters, pipeVars>>

NextGate == GateMain

SpecGate == InitGate /\ [][NextGate]_vars

(***************************************************************************)
(* A RunLogger under bounded sequences of log_step and add_output calls:   *)
(* `input` is the logger, `output` the calls made on it so far             *)
(***************************************************************************)
\* most calls made on the logger
MaxCalls == 3

StepCalls ==
    [method : {"log_step"}, name : {"summary", "classification"},
     status : {"started", "success", "skipped"}]

OutputCalls ==
    [method : {"add_output"}, kind : {"summary_json", "classification_json"},
     path : {<<"out", 1, "_summary.json">>}, content : {"{}", "{\"summary\": \"x\"}"}]

InitLogger ==
    /\ PipelineOff
    /\ updaters = <<>>
    /\ fn = "RunLogger"
    /\ input = RunLogger(<<1, 1>>, Sha256(ReadText(<<1, 1>>)), <<>>)
    /\ output = <<>>

LogStep ==
    \E call \in StepCalls :
        /\ Len(output) < MaxCalls
        /\ fn' = "log_step"
        /\ input' = log_step(input, call.name, call.status)
        /\ output' = Append(output, call)
        /\ UNCHANGED <<updaters, pipeVars>>

AddOutput ==
    \E call \in OutputCalls :
        /\ Len(output) < MaxCalls
        /\ fn' = "add_output"
        /\ input' = add_output(input, call.kind, call.path, call.content)
        /\ output' = Append(output, call)
        /\ UNCHANGED <<updaters, pipeVars>>

NextLogger == LogStep \/ AddOutput

SpecLogger == InitLogger /\ [][NextLogger]_vars

(***************************************************************************)
(* The free-text stages applied to bounded sets of replies                 *)
(***************************************************************************)
ReplyPads == {"", " ", "\n ", "\t"}

ReplyBodies ==
    {"", "Updates salaries.", "CREATE TABLE emp (id NUMBER);",
     "Loads rows. INSERT INTO emp VALUES (1);", "BEGIN NULL; END;"}

\* the content of the first choice of the service's reply
FreeTextReplies ==
    { JNull } \cup { JStr(l \o b \o r) : l \in ReplyPads, b \in ReplyBodies, r \in ReplyPads }

InitFreeText ==
    /\ PipelineOff
    /\ updaters = <<>>
    /\ fn = "none"
    /\ input \in FreeTextReplies
    /\ output = NoError

RunSummaryStep ==
    /\ fn = "none"
    /\ fn' = "run_summary_step"
    /\ output' = run_summary_step(input)
    /\ UNCHANGED <<input, updaters, pipeVars>>

RunRefactorStep ==
    /\ fn = "none"
    /\ fn' = "run_refactor_step"
    /\ output' = run_refactor_step(input)
    /\ UNCHANGED <<input, updaters, pipeVars>>

NextFreeText ==
    \/ RunSummaryStep
    \/ RunRefactorStep

SpecFreeText == InitFreeText /\ [][NextFreeText]_vars

(***************************************************************************)
(* The correction request of two structured-stage invocations              *)
(***************************************************************************)
SourceCodes ==
    { "CREATE OR REPLACE PROCEDURE raise_salary IS BEGIN UPDATE emp SET sal = sal * 1.1; END;",
      "CREATE OR REPLACE PROCEDURE purge_log IS BEGIN DELETE FROM log; COMMIT; END;",
      "BEGIN NULL; END;" }

\* first replies of the service: four malformed ones and the two well-formed
FirstReplies ==
    { "", single_quoted_text, "{\"summary\": \"Updates salaries.\",}",
      "Here is the JSON: {\"security\": []}", classification_text, analysis_text }

Invocations == [name : {"Classification", "Analysis"}, code : SourceCodes, raw : FirstReplies]

InitCorrection ==
    /\ PipelineOff
    /\ updaters = <<>>
    /\ fn = "none"
    /\ input \in [1..2 -> Invocations]
    /\ output = NoError

\* both invocations parse their first reply and, where it is malformed,
\* send the correction request
CorrectJson ==
    /\ fn = "none"
    /\ fn' = "_correct_json"
    /\ output' = [i \in 1..2 |->
            IF FirstParse(input[i].name, input[i].raw).next = "correct"
            THEN Returns(CorrectionRequest(input[i].name, input[i].code, input[i].raw))
            ELSE NoError]
    /\ UNCHANGED <<input, updaters, pipeVars>>

NextCorrection == CorrectJson

SpecCorrection == InitCorrection /\ [][NextCorrection]_vars

(***************************************************************************)
(* Properties of the schema validator                                      *)
(***************************************************************************)
\* the declared shapes, stated on the document itself
StringSequence(x) == x.t = "list" /\ \A i \in 1..Len(x.v) : x.v[i].t = "str"
ScalarString(x) == x.t = "str"
HasShape(x, shape) == IF shape = "string" THEN ScalarString(x) ELSE StringSequence(x)
FieldIs(doc, key, shape) ==
    /\ doc.t = "dict"
    /\ \E i \in 1..Len(doc.v) : doc.v[i].k = key /\ HasShape(doc.v[i].v, shape)
SevenStringSequences(doc) ==
    \A c \in Range(required_categories) : FieldIs(doc, c, "sequence of strings")
AnalysisShapes(doc) ==
    /\ FieldIs(doc, "summary", "string")
    /\ FieldIs(doc, "risks", "sequence of strings")
    /\ FieldIs(doc, "assumptions", "sequence of strings")

\* C7: validate_classification accepts a parsed reply, whatever other keys
\* it carries, if and only if all 7 categories are present and each is a
\* sequence of strings.
C7_AcceptsIffSevenStringSequences ==
    fn = "validate_classification" =>
        (output.ok <=> SevenStringSequences(input.data))

\* C8 (as stated): a structured output that passes validation has exactly
\* the declared required fields, no others, each with its declared shape.
C8_ExactlyRequiredFields ==
    (fn # "none" /\ output.ok) =>
        /\ fn = "validate_classification" =>
              /\ SevenStringSequences(input.data)
              /\ Keys(input.data) = Range(required_categories)
        /\ fn = "validate_analysis" =>
              /\ AnalysisShapes(input.data)
              /\ Keys(input.data) = Range(required_analysis)

\* C8 (amended): a structured output that passes validation has every
\* declared required field, each with its declared shape; it may carry
\* further fields.
C8_ValidatedHasRequiredFields ==
    (fn # "none" /\ output.ok) =>
        /\ fn = "validate_classification" => SevenStringSequences(input.data)
        /\ fn = "validate_analysis" => AnalysisShapes(input.data)

\* a classification with a non-empty category and a key outside the
\* contract has passed validation
C8_Witness ==
    /\ fn = "validate_classification"
    /\ output.ok
    /\ "notes" \in Keys(input.data)
    /\ \E c \in Range(required_categories) : Len(Get(input.data, c).v) > 0

\* C9: validate_analysis rejects a parsed reply whenever summary is not a
\* string, risks or assumptions is not a sequence of strings, or one of the
\* three is missing, and accepts when all three have the declared shape.
C9_AnalysisAcceptsIffShapes ==
    fn = "validate_analysis" =>
        (output.ok <=> AnalysisShapes(input.data))

\* a reply was rejected only because of a non-string element of assumptions
C9_Witness ==
    /\ fn = "validate_analysis"
    /\ ~output.ok
    /\ FieldIs(input.data, "summary", "string")
    /\ FieldIs(input.data, "risks", "sequence of strings")
    /\ HasKey(input.data, "assumptions")
    /\ Get(input.data, "assumptions").t = "list"

(***************************************************************************)
(* Properties of the per-file aggregator                                   *)
(***************************************************************************)
\* the entries of the sequence-valued categories, in document order
SourceEntries(doc) ==
    Concat([i \in 1..Len(doc.v) |-> IF doc.v[i].v.t = "list" THEN doc.v[i].v.v ELSE <<>>])

FourSeverities == {"low", "medium", "high", "critical"}

\* the entry carries no severity: it is no dict, has no such key, or has null
LacksSeverity(entry) ==
    \/ entry.t # "dict"
    \/ \A i \in 1..Len(entry.v) : entry.v[i].k = "severity" => entry.v[i].v.t = "null"

\* the entry carries the severity string s
CarriesSeverity(entry, s) ==
    /\ entry.t = "dict"
    /\ \E i \in 1..Len(entry.v) : entry.v[i].k = "severity" /\ entry.v[i].v = [t |-> "str", v |-> s]

SeverityTexts == {"", "low", "medium", "high", "critical", "HIGH", "Critical", "Blocker", "urgent"}

\* the severity string with its letters in lower case
Folded(s) ==
    CASE s = "HIGH" -> "high" [] s = "Critical" -> "critical" [] s = "Blocker" -> "blocker"
      [] OTHER -> s

Flattened == fn = "_flatten_issues_from_classification" /\ output.ok

\* C10 (as stated): every Issue produced by flattening has a severity in
\* {low, medium, high, critical}; an issue lacking a severity, or carrying a
\* severity string outside those four, gets exactly 'medium'.
C10_OutsideFourIsMedium ==
    Flattened =>
        \A i \in 1..Len(output.value) :
            LET sev == Get(output.value[i], "severity").v
                entry == SourceEntries(input.classification)[i]
            IN  /\ sev \in FourSeverities
                /\ LacksSeverity(entry) => sev = "medium"
                /\ \A s \in SeverityTexts \ FourSeverities :
                       CarriesSeverity(entry, s) => sev = "medium"

\* C10 (amended): every Issue produced by flattening has a severity in
\* {low, medium, high, critical}; an issue lacking a severity gets
\* 'medium', and an issue carrying a severity string gets that string in
\* lower case when this is one of the four and 'medium' otherwise.
C10_SeverityNormalized ==
    Flattened =>
        \A i \in 1..Len(output.value) :
            LET sev == Get(output.value[i], "severity").v
                entry == SourceEntries(input.classification)[i]
            IN  /\ sev \in FourSeverities
                /\ LacksSeverity(entry) => sev = "medium"
                /\ \A s \in SeverityTexts :
                       CarriesSeverity(entry, s) =>
                           sev = IF Folded(s) \in FourSeverities THEN Folded(s) ELSE "medium"

\* a classification with an entry of severity "HIGH" and one of an unknown
\* severity has been flattened
C10_Witness ==
    /\ Flattened
    /\ Len(output.value) = 2
    /\ \E i, j \in 1..2 :
          /\ CarriesSeverity(SourceEntries(input.classification)[i], "HIGH")
          /\ CarriesSeverity(SourceEntries(input.classification)[j], "urgent")

\* the severity the domain gives an entry: its own, in lower case, when that
\* is one of the four, and medium otherwise
SeverityOf(entry) ==
    IF \E s \in SeverityTexts : CarriesSeverity(entry, s) /\ Folded(s) \in FourSeverities
    THEN Folded(CHOOSE s \in SeverityTexts : CarriesSeverity(entry, s))
    ELSE "medium"

\* the weights the risk score is declared with
Weight(sev) ==
    CASE sev = "low" -> 5 [] sev = "medium" -> 10 [] sev = "high" -> 20 [] sev = "critical" -> 30

Clamp(x) == IF x < 0 THEN 0 ELSE IF x > 100 THEN 100 ELSE x

\* the sum the risk score is the clamped value of
UnclampedRisk(classification, analysis) ==
    LET entries == SourceEntries(classification)
    IN  SumSeq([i \in 1..Len(entries) |-> Weight(SeverityOf(entries[i]))])
        + 5 * Len(Get(analysis, "risks").v)

NoEntries(classification) == SourceEntries(classification) = <<>>

Scored == fn = "_compute_risk_score" /\ output.ok

\* C11: the per-file risk score is the sum of the severity weights of the
\* flattened issues (low 5, medium 10, high 20, critical 30) plus 5 times
\* the number of analysis risk entries, clamped to [0,100]; it is always in
\* [0,100] and is 0 for an empty classification with an empty analysis.
C11_RiskScoreIsClampedWeightedSum ==
    Scored =>
        /\ output.value = Clamp(UnclampedRisk(input.classification, input.analysis))
        /\ output.value \in 0..100
        /\ (NoEntries(input.classification) /\ Get(input.analysis, "risks").v = <<>>)
               => output.value = 0

\* a score was clamped: the weighted sum of the drawn file is above 100
C11_Witness ==
    /\ Scored
    /\ UnclampedRisk(input.classification, input.analysis) > 100
    /\ output.value = 100
    /\ \E i \in 1..Len(SourceEntries(input.classification)) :
           CarriesSeverity(SourceEntries(input.classification)[i], "high")

NoRisks(analysis) == Get(analysis, "risks").v = <<>>

\* the classification holds one entry and that entry carries severity critical
OneCriticalIssue(classification) ==
    /\ Len(SourceEntries(classification)) = 1
    /\ \E s \in SeverityTexts : /\ CarriesSeverity(SourceEntries(classification)[1], s)
                                /\ Folded(s) = "critical"

\* C12 as stated: the classification {critical: ["X"]} with no analysis risks
\* scores 30.
C12_SeverityKeyedScores30 ==
    (fn = "_compute_risk_score" /\ input.classification = SeverityKeyed /\ NoRisks(input.analysis))
        => output = Returns(30)

\* C12 amended: with no analysis risks, a classification whose single issue
\* carries severity critical scores 30; the classification {critical: ["X"]},
\* whose key is read as a category and whose entry carries no severity,
\* scores 10.
C12_OneCriticalIssueScores30 ==
    (fn = "_compute_risk_score" /\ NoRisks(input.analysis)) =>
        /\ OneCriticalIssue(input.classification) => output = Returns(30)
        /\ input.classification = SeverityKeyed => output = Returns(10)

\* a file with one critical issue and no risks was scored
C12_Witness ==
    /\ fn = "_compute_risk_score"
    /\ NoRisks(input.analysis)
    /\ OneCriticalIssue(input.classification)
    /\ output = Returns(30)

(***************************************************************************)
(* Properties of the run-level aggregation                                 *)
(***************************************************************************)
\* |n * mean - total| <= n / 2: mean is total / n rounded to an integer
IsRoundedMean(mean, total, n) ==
    /\ 2 * (n * mean - total) <= n
    /\ 2 * (total - n * mean) <= n

Aggregated == fn = "aggregate_results" /\ output.ok

RiskScores == [i \in 1..Len(input) |-> input[i].risk_score]

\* C13: overall_risk_score is the mean of the per-file risk scores of the
\* completed files rounded to the nearest integer, 0 when no file
\* completed, and always within [0,100]; two files scoring 30 and 10 give 20.
C13_OverallRiskIsRoundedMean ==
    Aggregated =>
        LET overall == output.value.overall_risk_score
        IN  /\ Len(input) = 0 => overall = 0
            /\ Len(input) > 0 => IsRoundedMean(overall, SumSeq(RiskScores), Len(input))
            /\ overall \in 0..100
            /\ RiskScores = <<30, 10>> => overall = 20

\* two files with scores 30 and 10 were aggregated
C13_Witness ==
    /\ Aggregated
    /\ RiskScores = <<30, 10>>
    /\ output.value.overall_risk_score = 20
    /\ output.value.scanned_files = 2

\* the severity an issue of a file result carries
IssueSeverity(issue) == Get(issue, "severity").v

HighOrCritical(issue) == IssueSeverity(issue) \in {"high", "critical"}

\* the red flag is the one of issue k of file j
FlagOf(flag, j, k) ==
    /\ flag.file = input[j].path
    /\ flag.severity = Get(input[j].issues[k], "severity")
    /\ flag.message = Get(input[j].issues[k], "message")

HighOrCriticalCount ==
    SumSeq([j \in 1..Len(input) |-> Len(SelectSeq(input[j].issues, HighOrCritical))])

\* C14: red_flags holds one entry per issue of a completed file whose
\* severity is high or critical, tagged with that file's path, and no entry
\* for an issue of severity low or medium.
C14_RedFlagsIffHighOrCritical ==
    Aggregated =>
        LET red_flags == output.value.red_flags
        IN  /\ \A i \in 1..Len(red_flags) :
                   /\ red_flags[i].severity.v \in {"high", "critical"}
                   /\ \E j \in 1..Len(input) : \E k \in 1..Len(input[j].issues) :
                          HighOrCritical(input[j].issues[k]) /\ FlagOf(red_flags[i], j, k)
            /\ \A j \in 1..Len(input) : \A k \in 1..Len(input[j].issues) :
                   HighOrCritical(input[j].issues[k])
                       <=> \E i \in 1..Len(red_flags) : FlagOf(red_flags[i], j, k)
            /\ Len(red_flags) = HighOrCriticalCount

\* a file with a low and a high issue and a file with a critical one were
\* aggregated: two flags, none for the low issue
C14_Witness ==
    /\ Aggregated
    /\ Len(input) = 2
    /\ Len(input[1].issues) = 2
    /\ IssueSeverity(input[1].issues[1]) = "low"
    /\ IssueSeverity(input[1].issues[2]) = "high"
    /\ Len(input[2].issues) = 1
    /\ IssueSeverity(input[2].issues[1]) = "critical"
    /\ Len(output.value.red_flags) = 2
    /\ output.value.red_flags[1].file = <<1, 1>>
    /\ output.value.red_flags[2].file = <<1, 2>>

\* the checklist items of the files, in file order
AllChecklistItems == Concat([j \in 1..Len(input) |-> input[j].checklist_items])

\* where an item is first seen among the items of the files
FirstSeen(item) ==
    CHOOSE i \in 1..Len(AllChecklistItems) :
        /\ AllChecklistItems[i] = item
        /\ \A h \in 1..(i - 1) : AllChecklistItems[h] # item

\* C15: the run-level checklist is the union of the checklist items of the
\* completed files without duplicates, in first-seen order.
C15_ChecklistIsDeduplicatedUnion ==
    Aggregated =>
        LET checklist == output.value.checklist
        IN  /\ \A i, j \in 1..Len(checklist) : i # j => checklist[i] # checklist[j]
            /\ Range(checklist) = Range(AllChecklistItems)
            /\ \A i, j \in 1..Len(checklist) :
                   i < j => FirstSeen(checklist[i]) < FirstSeen(checklist[j])

\* two files each gave "Review: check nulls", the second after an item the
\* first file had not: the aggregate has it once, in first-seen order
C15_Witness ==
    /\ Aggregated
    /\ Len(input) = 2
    /\ input[1].checklist_items = <<"Review: no exception handler">>
    /\ input[2].checklist_items = <<"Review: check nulls", "Review: no exception handler">>
    /\ output.value.checklist = <<"Review: no exception handler", "Review: check nulls">>

(***************************************************************************)
(* Properties of the stage executor and the orchestrator                   *)
(***************************************************************************)
StructuredStages == {"classification", "analysis"}

\* the entries of a log that belong to one stage invocation (a file is
\* handed to process_file once, so file and stage name the invocation)
Of(log, p, s) == SelectSeq(log, LAMBDA e : e.path = p /\ e.stage = s)

StillInvalidMessages ==
    { "Classification JSON still invalid after correction.",
      "Analysis JSON still invalid after correction." }

IsStructuredOutputInvalid(exc) == exc.msg \in StillInvalidMessages

SummaryJson == <<"output", 0, "summary.json">>

\* the directory-wide run has ended after its loop and written its aggregate
RunComplete ==
    pc = "done" /\ args.entry = "directory" /\ Len(files) > 0 /\ exit_code = 0

FailedPaths == { stderr[i].path : i \in 1..Len(stderr) }

\* C1: in dry-evaluation mode a whole run, directory-wide or single-file,
\* performs no write to disk (no file or directory is created or changed)
\* and issues no request to the external service.
C1_DryRunWritesNothingRequestsNothing ==
    args.dry_run => (dirs = {} /\ DOMAIN disk = {} /\ requests = <<>>)

\* the half of C1 the code keeps: a dry run sends no request
C1_DryRunRequestsNothing == args.dry_run => requests = <<>>

\* C2: in every invocation of a structured stage there are never more than
\* 2 parse attempts and never more than 2 requests, at most one of them a
\* correction request, and it is sent only after the first parse failed.
C2_AtMostOneCorrection ==
    \A p \in Paths, s \in StructuredStages :
        LET rq == Of(requests, p, s)
            ps == Of(parses, p, s)
        IN  /\ Len(rq) <= 2
            /\ Len(ps) <= 2
            /\ \A i \in 1..Len(rq) :
                   rq[i].kind = "correction" => (i = 2 /\ Len(ps) >= 1 /\ ~ps[1].ok)

\* a stage invocation has used its correction pass, and it parsed
C2_Witness ==
    \E p \in Paths, s \in StructuredStages :
        /\ Len(Of(requests, p, s)) = 2
        /\ Len(Of(parses, p, s)) = 2
        /\ Of(parses, p, s)[2].ok

\* C3: when the first reply of a structured stage does not parse and the
\* corrected reply does not parse either, the stage fails with the
\* still-invalid error carrying both parse errors and both raw texts; the
\* orchestrator does not count the file and goes on with the next file.
C3_DoubleParseFailure ==
    /\ [][ ( /\ pc \in {"classification_correction", "analysis_correction"}
             /\ ~parses'[Len(parses')].ok )
           => /\ Len(stderr') = Len(stderr) + 1
              /\ LET e == stderr'[Len(stderr')]
                 IN  /\ e.path = path
                     /\ IsStructuredOutputInvalid(e.exc)
                     /\ e.exc.original_output = local.raw
                     /\ e.exc.corrected_output = local'.fixed_raw
                     /\ ~e.exc.original_error.ok /\ ~e.exc.correction_error.ok
                     /\ e.exc.original_error = json_loads(e.exc.original_output)
                     /\ e.exc.correction_error = json_loads(e.exc.corrected_output)
              /\ results' = results
              /\ args.entry = "directory" => (pc' = "loop" /\ cur' = cur + 1)
         ]_vars
    /\ [](RunComplete =>
            \A i \in 1..Len(stderr) :
                IsStructuredOutputInvalid(stderr[i].exc) =>
                    /\ \A j \in 1..Len(results) : results[j].path # stderr[i].path
                    /\ disk[SummaryJson].value.scanned_files < Len(files)
                    /\ attempted = files)

\* a file failed on two malformed replies that differ, and the file after
\* it has been processed to its end
C3_Witness ==
    /\ RunComplete
    /\ Len(files) = 2
    /\ \E i \in 1..Len(stderr) :
          /\ stderr[i].path = files[1]
          /\ IsStructuredOutputInvalid(stderr[i].exc)
          /\ stderr[i].exc.original_output # stderr[i].exc.corrected_output
    /\ Len(results) = 1 /\ results[1].path = files[2]

\* C4: a schema violation is never auto-corrected: when a structured reply
\* parses (first or corrected attempt) but the validator rejects it, no
\* further request is sent for that stage and the failure propagates at
\* once, as an outcome distinct from a parse failure.
C4_SchemaViolationNotCorrected ==
    \A p \in Paths, s \in StructuredStages :
        LET rq == Of(requests, p, s)
            ps == Of(parses, p, s)
            errs == Of(stderr, p, s)
        IN  /\ Len(rq) = Len(ps)
            /\ \A i \in 1..Len(ps) : ps[i].ok => i = Len(ps)
            /\ (Len(ps) > 0 /\ ps[Len(ps)].ok /\ Len(errs) > 0) =>
                  /\ ~IsStructuredOutputInvalid(errs[1].exc)
                  /\ errs[1].exc.exc \in {"ValueError", "TypeError"}
                  /\ errs[1].exc.msg \notin {"Expecting value",
                                             "Expecting property name enclosed in double quotes"}
                  /\ \A i \in 1..Len(requests) :
                         requests[i].path = p =>
                             requests[i].stage \in {"summary", "classification", s}
                  /\ \A j \in 1..Len(results) : results[j].path # p
            /\ (Len(ps) > 0 /\ ~ps[Len(ps)].ok /\ Len(errs) > 0) =>
                  IsStructuredOutputInvalid(errs[1].exc)

\* a corrected reply parsed, the validator rejected it, and the run went on
C4_Witness ==
    \E p \in Paths, s \in StructuredStages :
        /\ Len(Of(parses, p, s)) = 2
        /\ Of(parses, p, s)[2].ok
        /\ Len(Of(stderr, p, s)) = 1
        /\ \E i \in 1..Len(requests) : PathLess(p, requests[i].path)

\* strictly ascending by path
Ascending(seq) == \A i, j \in 1..Len(seq) : i < j => PathLess(seq[i], seq[j])

\* C5: every discovered file is attempted exactly once, in sorted path
\* order, and an error of any kind while one file is processed never
\* prevents a later file from being processed.
C5_EveryFileAttemptedOnceInOrder ==
    /\ [][ (pc = "start" /\ args.entry = "directory" /\ args.path_exists)
           => /\ Range(files') = Range(listing) /\ Len(files') = Len(listing)
              /\ Ascending(files') ]_vars
    /\ []( (args.entry = "directory" /\ pc # "start") =>
            /\ Len(attempted) <= Len(files)
            /\ attempted = SubSeq(files, 1, Len(attempted))
            /\ Len(attempted) = IF pc = "loop" THEN cur - 1
                                ELSE IF pc = "done" THEN Len(files) ELSE cur
            /\ (pc = "done" /\ args.path_exists) => attempted = files )

\* of two files the first in path order failed and the second was
\* processed all the same
C5_Witness ==
    /\ RunComplete
    /\ Len(files) = 2
    /\ PathLess(files[1], files[2])
    /\ files[1] \in FailedPaths
    /\ attempted = files
    /\ \E j \in 1..Len(results) : results[j].path = files[2]

\* C6: the final aggregate reflects only the files that completed: a file
\* whose processing failed is not counted in scanned_files, does not enter
\* the risk mean and gives no entry to files, red_flags or checklist;
\* scanned_files is the number of files that completed.
C6_AggregateOfCompletedFilesOnly ==
    RunComplete =>
        LET summary == disk[SummaryJson].value
            isCompleted(p) == p \notin FailedPaths
            completed == SelectSeq(files, isCompleted)
            n == Len(completed)
        IN  /\ summary.scanned_files = n
            /\ Len(summary.files) = n
            /\ \A i \in 1..n : summary.files[i].path = completed[i]
            /\ IF n = 0 THEN summary.overall_risk_score = 0
               ELSE IsRoundedMean(summary.overall_risk_score,
                                  SumSeq([i \in 1..n |-> summary.files[i].risk_score]), n)
            /\ \A i \in 1..Len(summary.red_flags) : summary.red_flags[i].file \notin FailedPaths
            /\ \A i \in 1..Len(summary.checklist) :
                   \E j \in 1..n : \E k \in 1..Len(summary.files[j].checklist_items) :
                       summary.files[j].checklist_items[k] = summary.checklist[i]

\* one of two files failed after its summary stage had succeeded, the
\* other completed with checklist items
C6_Witness ==
    /\ RunComplete
    /\ Len(files) = 2
    /\ \E i \in 1..Len(stderr) : stderr[i].stage \in StructuredStages
    /\ disk[SummaryJson].value.scanned_files = 1
    /\ Len(disk[SummaryJson].value.checklist) > 0

DirectoryRunEnded == args.entry = "directory" /\ pc = "done"

\* C16: in directory-wide mode the exit status is non-zero only when the
\* root path does not exist; whenever the root path exists the run exits 0,
\* however many files fail, including when every file fails.
C16_ExitNonZeroOnlyOnMissingRoot ==
    DirectoryRunEnded => (exit_code # 0 <=> ~args.path_exists)

\* the same where the output location can be written: a run over an existing
\* root ends with status 0 whatever number of its files failed
C16_WritableOutputExitsZero ==
    (DirectoryRunEnded /\ args.output_writable) => (exit_code # 0 <=> ~args.path_exists)

\* every file of a run of two failed and the run ended with status 0
C16_EveryFileFailedExitZero ==
    /\ DirectoryRunEnded
    /\ Len(files) = 2
    /\ results = <<>>
    /\ exit_code = 0

\* C17: a missing root path (directory mode) or input file (single-file
\* mode) is fatal before any processing: the process fails, no request has
\* been issued and no artifact, run record or index has been written.
C17_MissingInputAbortsBeforeProcessing ==
    ~args.path_exists =>
        /\ requests = <<>>
        /\ DOMAIN disk = {}
        /\ dirs = {}
        /\ attempted = <<>>
        /\ pc = "done" => exit_code = 1

\* a single-file run ended on its missing input file
C17_Witness ==
    /\ ~args.path_exists
    /\ args.entry = "single"
    /\ ~args.dry_run
    /\ pc = "done"
    /\ exit_code = 1
    /\ requests = <<>>

\* the run records persisted at the log location
RunRecords == { n \in DOMAIN disk : n[1] = "log" /\ n[3] = "_runlog.json" }

\* the name under which the run record of a file is persisted
RunRecordOf(file) == <<"log", file[2], "_runlog.json">>

\* C20: each file run persists exactly one run record, keyed by the base
\* name of the file, and persisting a run record never overwrites or
\* changes a record written earlier: a record once written stays as it is,
\* and every completed file of a run has its own record on disk.
C20_OneRunRecordPerFileRun ==
    /\ [][\A n \in RunRecords : n \in DOMAIN disk' /\ disk'[n] = disk[n]]_vars
    /\ [](~args.dry_run =>
             \A j \in 1..Len(results) :
                 /\ RunRecordOf(results[j].path) \in RunRecords
                 /\ disk[RunRecordOf(results[j].path)].value.input_file = results[j].path)

\* the same for the runs whose files have pairwise different base names
C20_DistinctBaseNamesKeepRecords ==
    (~args.dry_run /\ \A i, j \in 1..Len(files) : i # j => files[i][2] # files[j][2]) =>
        \A j \in 1..Len(results) :
            /\ RunRecordOf(results[j].path) \in RunRecords
            /\ disk[RunRecordOf(results[j].path)].value.input_file = results[j].path

(***************************************************************************)
(* Properties of the global index                                          *)
(***************************************************************************)
\* the entries of the index at the log location
IndexEntries == LoadIndex(disk)

\* run r completes an index update in this step
Updates(r) == updaters[r].pc = "loaded" /\ updaters'[r].pc = "idle"

\* the entry run r is about to add
PendingEntry(r) == UpdateEntry(r, updaters[r].done + 1)

\* no other update has written the index since run r read it
ReadIsCurrent(r) == updaters[r].existing = IndexEntries

\* C18: the index is append-only: over an index update that follows the
\* updates before it, every entry that was in the index is still there,
\* unchanged and at its position, and the new entry is appended at the end.
C18_IndexAppendOnly ==
    [][\A r \in Runs :
          (Updates(r) /\ ReadIsCurrent(r)) =>
              LoadIndex(disk') = Append(IndexEntries, PendingEntry(r))]_vars

\* run 1 made its two updates one after the other on an index that held an
\* entry: the three entries are there in that order
C18_Witness ==
    /\ fn = "_update_global_index"
    /\ updaters[2].done = 0 /\ updaters[2].pc = "idle"
    /\ IndexEntries = <<OldEntry, UpdateEntry(1, 1), UpdateEntry(1, 2)>>

AllUpdatesDone == \A r \in Runs : updaters[r].pc = "idle" /\ updaters[r].done = MaxUpdates

UpdatesDone == updaters[1].done + updaters[2].done

\* C19: the index update is an unlocked read-modify-write: what an update
\* writes is the list it read with its entry appended, whatever the index
\* holds by then, so the index never has more entries than it had at the
\* start plus the completed updates, and may have fewer.
C19_UnlockedReadModifyWrite ==
    /\ [][\A r \in Runs :
             Updates(r) => LoadIndex(disk') = Append(updaters[r].existing, PendingEntry(r))]_vars
    /\ [](fn = "_update_global_index" => Len(IndexEntries) <= 1 + UpdatesDone)

\* both runs completed all their updates, no error was raised, and the
\* first entry of run 1 is not in the final index
C19_Witness ==
    /\ fn = "_update_global_index"
    /\ AllUpdatesDone
    /\ stderr = <<>>
    /\ \A i \in 1..Len(IndexEntries) : IndexEntries[i] # UpdateEntry(1, 1)

\* the index file is there and does not parse or holds no list
CorruptIndex(d) ==
    /\ IsFile(d, index_path)
    /\ ~(d[index_path].kind = "json" /\ d[index_path].value.t = "list")

\* C27: an index update tolerates a corrupt index: when the index document
\* does not parse or is no sequence, the update reads it as empty, raises
\* no error and completes, and the rewritten index is a sequence that holds
\* exactly one entry, the new one.
C27_CorruptIndexReplaced ==
    [][\A r \in Runs :
          /\ (updaters[r].pc = "idle" /\ updaters'[r].pc = "loaded" /\ CorruptIndex(disk))
                 => updaters'[r].existing = <<>>
          /\ (Updates(r) /\ CorruptIndex(disk))
                 => /\ ~CorruptIndex(disk')
                    /\ disk'[index_path].value.v = <<PendingEntry(r)>>
                    /\ updaters'[r].pc = "idle"
                    /\ updaters'[r].done = updaters[r].done + 1
                    /\ stderr' = stderr]_vars

\* the log location held a corrupt index, run 1 made one update and run 2
\* none: the index is a list of the one entry of run 1
C27_Witness ==
    /\ fn = "_update_global_index"
    /\ CorruptIndex(input)
    /\ updaters[1].done = 1 /\ updaters[1].pc = "idle"
    /\ updaters[2].done = 0 /\ updaters[2].pc = "idle"
    /\ disk[index_path].kind = "json"
    /\ disk[index_path].value = JList(<<UpdateEntry(1, 1)>>)

(***************************************************************************)
(* Properties of the index within one run                                  *)
(***************************************************************************)
\* the processing of every discovered file has ended
AllFilesProcessed == pc = "done" \/ (pc = "loop" /\ cur > Len(files))

\* C21 as stated: no index update happens before the processing of the
\* last file has ended.
C21_IndexUpdatedAfterAllFiles ==
    Len(IndexEntries) > 0 => AllFilesProcessed

\* C21 amended: the index is updated at the end of each completed file run,
\* in the step that persists its run record: every index update appends the
\* one entry of the file whose run ends, and when the run has ended the
\* index holds one entry per completed file, in processing order.
C21_IndexUpdatedAtEndOfEachFileRun ==
    /\ [][IndexEntries' # IndexEntries =>
             /\ pc = "finish_file"
             /\ Len(IndexEntries') = Len(IndexEntries) + 1
             /\ LET e == IndexEntries'[Len(IndexEntries')]
                IN  /\ IndexEntries' = Append(IndexEntries, e)
                    /\ e.record.input_file = path
                    /\ e.runlog_path = RunRecordOf(path)
                    /\ disk'[RunRecordOf(path)].value = e.record]_vars
    /\ []((pc = "done" /\ args.entry = "directory" /\ ~args.dry_run) =>
             /\ Len(IndexEntries) = Len(results)
             /\ \A j \in 1..Len(results) :
                    IndexEntries[j].record.input_file = results[j].path)

\* the first of two files has ended and is in the index while the second
\* file is at its summary stage
C21_Witness ==
    /\ args.entry = "directory"
    /\ Len(files) = 2
    /\ cur = 2
    /\ pc = "summary"
    /\ Len(IndexEntries) = 1
    /\ IndexEntries[1].record.input_file = files[1]

(***************************************************************************)
(* Properties of the free-text stages                                      *)
(***************************************************************************)
\* the text of the reply: nothing where the service sent no content
ReplyText == IF input.t = "null" THEN "" ELSE input.v

\* the reply has no character that is not white space
Blank(text) == \A i \in 1..Len(text) : SubSeq(text, i, i) \in {" ", "\t", "\n", "\r"}

QuotesSql(text) == Contains(text, "CREATE TABLE") \/ Contains(text, "INSERT INTO")

EmptyOutput(result) ==
    /\ ~result.ok
    /\ result.exc = "ValueError"
    /\ result.msg \in {"Summary is empty.", "Refactor output is empty."}

\* C22: a free-text stage (summary, refactor) fails with EmptyOutput if
\* and only if the trimmed reply is empty; a non-empty summary that holds
\* CREATE TABLE or INSERT INTO does not fail.
C22_EmptyOutputIffBlankReply ==
    fn \in {"run_summary_step", "run_refactor_step"} =>
        /\ ~output.ok <=> Blank(ReplyText)
        /\ ~output.ok => EmptyOutput(output)
        /\ (~Blank(ReplyText) /\ QuotesSql(ReplyText)) => output.ok

\* a padded summary that quotes an INSERT statement passed the summary stage
C22_Witness ==
    /\ fn = "run_summary_step"
    /\ input = JStr(" Loads rows. INSERT INTO emp VALUES (1);\n ")
    /\ output = Returns("Loads rows. INSERT INTO emp VALUES (1);")

(***************************************************************************)
(* Properties of the stage order within a file run                         *)
(***************************************************************************)
StageNames == <<"summary", "classification", "analysis", "refactor">>

StageIndex(stage) == CHOOSE i \in 1..Len(StageNames) : StageNames[i] = stage

\* the stage is enabled by the flags of the run
StageEnabled(stage) ==
    CASE stage = "summary" -> TRUE
      [] stage = "classification" -> ~args.no_classification
      [] stage = "analysis" -> ~args.no_analysis
      [] stage = "refactor" -> args.refactor

\* the step log of a file run whose stages all succeeded
ExpectedSteps ==
    Concat([i \in 1..Len(StageNames) |->
        IF StageEnabled(StageNames[i])
        THEN <<[name |-> StageNames[i], status |-> "started"],
               [name |-> StageNames[i], status |-> "success"]>>
        ELSE <<[name |-> StageNames[i], status |-> "skipped"]>>])

IsPrefix(a, b) == Len(a) <= Len(b) /\ SubSeq(b, 1, Len(a)) = a

\* the stages the requests sent for a file belong to, in sending order
RequestedStages(file) ==
    LET forFile(r) == r.path = file
        sent == SelectSeq(requests, forFile)
    IN  [i \in 1..Len(sent) |-> sent[i].stage]

\* C23: in every non-dry file run the stages execute in the order summary,
\* classification, analysis, refactor: the summary stage always runs, each
\* other stage runs iff its flag enables it, a disabled stage sends no
\* request and is logged as skipped, and a stage starts only after the
\* enabled stage before it has succeeded.
C23_StagesInFixedOrder ==
    /\ IsPrefix(run_logger.steps, ExpectedSteps)
    /\ \A n \in RunRecords : disk[n].value.steps = ExpectedSteps
    /\ \A i \in 1..Len(requests) : StageEnabled(requests[i].stage)
    /\ \A i, j \in 1..Len(requests) :
           (i < j /\ requests[i].path = requests[j].path)
               => StageIndex(requests[i].stage) <= StageIndex(requests[j].stage)
    /\ \A i \in 1..Len(requests) :
           requests[i].path = run_logger.input_file =>
               \E k \in 1..Len(run_logger.steps) :
                   run_logger.steps[k] = [name |-> requests[i].stage, status |-> "started"]
    /\ \A n \in RunRecords : \A k \in 1..Len(StageNames) :
           StageEnabled(StageNames[k]) <=>
               \E i \in 1..Len(RequestedStages(disk[n].value.input_file)) :
                   RequestedStages(disk[n].value.input_file)[i] = StageNames[k]

\* a file run with the classification disabled and the refactor enabled
\* has ended: its record logs the skip, its requests are those of the
\* summary, the analysis and the refactor, in that order
C23_Witness ==
    /\ args.no_classification /\ ~args.no_analysis /\ args.refactor
    /\ RunRecordOf(<<1, 1>>) \in RunRecords
    /\ disk[RunRecordOf(<<1, 1>>)].value.steps =
           <<[name |-> "summary", status |-> "started"],
             [name |-> "summary", status |-> "success"],
             [name |-> "classification", status |-> "skipped"],
             [name |-> "analysis", status |-> "started"],
             [name |-> "analysis", status |-> "success"],
             [name |-> "refactor", status |-> "started"],
             [name |-> "refactor", status |-> "success"]>>
    /\ RequestedStages(<<1, 1>>) = <<"summary", "analysis", "refactor">>

(***************************************************************************)
(* Properties of the correction request                                    *)
(***************************************************************************)
\* invocation i sent a correction request
Corrected(i) == fn = "_correct_json" /\ FirstParse(input[i].name, input[i].raw).next = "correct"

\* C24: the correction request depends only on the malformed raw reply and
\* the template of the stage: two invocations of a structured stage on
\* different source files that receive the same malformed first reply send
\* the identical request, and the request does not contain the source.
C24_CorrectionRequestIgnoresSource ==
    /\ (Corrected(1) /\ Corrected(2) /\ input[1].name = input[2].name
            /\ input[1].raw = input[2].raw)
           => output[1] = output[2]
    /\ \A i \in 1..2 :
           Corrected(i) =>
               /\ ~Contains(output[i].value.user_prompt, input[i].code)
               /\ ~Contains(output[i].value.system_prompt, input[i].code)
               /\ Contains(output[i].value.user_prompt, input[i].raw)
               /\ Contains(output[i].value.user_prompt, JsonTemplate(input[i].name))

\* two classification invocations on different sources got the same
\* single-quoted reply and sent the same request
C24_Witness ==
    /\ Corrected(1) /\ Corrected(2)
    /\ input[1].name = "Classification" /\ input[2].name = "Classification"
    /\ input[1].code # input[2].code
    /\ input[1].raw = single_quoted_text /\ input[2].raw = single_quoted_text
    /\ output[1] = output[2]

(***************************************************************************)
(* Properties of the per-file checklist and refactor suggestions           *)
(***************************************************************************)
\* the entries of a sequence-valued field of a document, none otherwise
EntriesOf(doc, key) ==
    IF \E i \in 1..Len(doc.v) : doc.v[i].k = key /\ doc.v[i].v.t = "list"
    THEN Get(doc, key).v ELSE <<>>

\* prefix and trimmed text of the text entries that are not blank, in order
LabelsOf(entries, prefix) ==
    LET hasText(e) == e.t = "str" /\ ~Blank(e.v)
        kept == SelectSeq(entries, hasText)
    IN  [i \in 1..Len(kept) |-> prefix \o Strip(kept[i].v)]

\* the labels the checklist is drawn from, duplicates included
ChecklistLabels ==
    LabelsOf(EntriesOf(input.analysis, "risks"), "Review: ")
    \o LabelsOf(EntriesOf(input.analysis, "assumptions"), "Review: ")
    \o LabelsOf(EntriesOf(input.classification, "uncertainty"), "Clarify: ")

\* seq holds the elements of source once each, ordered as source first has them
FirstSeenOrder(seq, source) ==
    /\ \A i, j \in 1..Len(seq) : i # j => seq[i] # seq[j]
    /\ Range(seq) = Range(source)
    /\ \A i, j \in 1..Len(seq) :
           i < j => \E h \in 1..Len(source) :
                       /\ source[h] = seq[i]
                       /\ \A g \in 1..h : source[g] # seq[j]

\* C25: the per-file checklist holds 'Review: <text>' for every analysis
\* risks entry, then every assumptions entry, then 'Clarify: <text>' for
\* every classification uncertainty entry, in input order, <text> being the
\* trimmed entry; blank entries are skipped and no item occurs twice.
C25_ChecklistLabelsInOrder ==
    (fn = "_derive_checklist_items" /\ output.ok) =>
        FirstSeenOrder(output.value, ChecklistLabels)

\* a blank risk was skipped and the assumption repeating a risk, like the
\* second uncertainty entry, gave no second item
C25_Witness ==
    /\ fn = "_derive_checklist_items"
    /\ EntriesOf(input.analysis, "risks") = <<JStr("check nulls"), JStr(" ")>>
    /\ EntriesOf(input.analysis, "assumptions") = <<JStr(" check nulls ")>>
    /\ Len(EntriesOf(input.classification, "uncertainty")) = 2
    /\ output = Returns(<<"Review: check nulls", "Clarify: check nulls">>)

\* the texts of the suggestion-like fields of the analysis, trimmed
ExplicitSuggestions ==
    LabelsOf(EntriesOf(input.analysis, "suggestions"), "")
    \o LabelsOf(EntriesOf(input.analysis, "refactor_suggestions"), "")
    \o LabelsOf(EntriesOf(input.analysis, "improvements"), "")

\* the recommendation / suggestion texts of the issues, trimmed
IssueSuggestions ==
    LET entries == SourceEntries(input.classification)
        textOf(e) == IF e.t # "dict" THEN JStr("")
                     ELSE IF HasKey(e, "recommendation") THEN Get(e, "recommendation")
                     ELSE IF HasKey(e, "suggestion") THEN Get(e, "suggestion")
                     ELSE JStr("")
    IN  LabelsOf([i \in 1..Len(entries) |-> textOf(entries[i])], "")

Suggested == fn = "_derive_refactor_suggestions" /\ output.ok

\* C26: refactor suggestions prefer the explicit suggestion-like fields of
\* the analysis: when the analysis carries such a field the suggestions
\* come from it, and the recommendation / suggestion texts of the issues
\* are used only otherwise; the result has no duplicates and keeps
\* first-seen order.
C26_IssueTextsOnlyAsFallback ==
    Suggested =>
        IF ExplicitSuggestions # <<>>
        THEN FirstSeenOrder(output.value, ExplicitSuggestions)
        ELSE FirstSeenOrder(output.value, IssueSuggestions)

\* what holds of the suggestions: they are the explicit texts followed by
\* the issue texts, whether or not there are explicit ones, once each in
\* first-seen order
C26_ExplicitThenIssueTexts ==
    Suggested => FirstSeenOrder(output.value, ExplicitSuggestions \o IssueSuggestions)

\* for every entry of the sequence-valued categories, in document order,
\* the name of its category
SourceCategories(doc) ==
    Concat([i \in 1..Len(doc.v) |->
              IF doc.v[i].v.t = "list"
              THEN [j \in 1..Len(doc.v[i].v.v) |-> doc.v[i].k]
              ELSE <<>>])

\* the category name in upper case
CategoryCode(category) ==
    CASE category = "security" -> "SECURITY"
      [] category = "uncertainty" -> "UNCERTAINTY"
      [] category = "critical" -> "CRITICAL"

\* the issue is made of the entry: a dict entry keeps its members (the
\* severity apart), any other entry is the message of the issue; the issue
\* has a category, a severity and a code and nothing else besides
MadeOf(issue, entry) ==
    /\ issue.t = "dict"
    /\ IF entry.t = "dict"
       THEN /\ \A m \in 1..Len(entry.v) :
                  entry.v[m].k # "severity" => Get(issue, entry.v[m].k) = entry.v[m].v
            /\ Keys(issue) = Keys(entry) \cup {"category", "severity", "code"}
       ELSE /\ entry.t = "str"
            /\ Get(issue, "message") = entry
            /\ Keys(issue) = {"message", "category", "severity", "code"}

Carries(entry, key) == entry.t = "dict" /\ HasKey(entry, key)

\* C28 (as stated): flattening a classification yields one Issue per entry
\* of every sequence-valued category, in category order then entry order,
\* each tagged with the category it is listed under and given the
\* uppercased category name as code when it has none; the number of issues
\* equals the total number of entries.
C28_TaggedWithListingCategory ==
    Flattened =>
        LET entries == SourceEntries(input.classification)
            categories == SourceCategories(input.classification)
        IN  /\ Len(output.value) = Len(entries)
            /\ \A i \in 1..Len(entries) :
                   /\ MadeOf(output.value[i], entries[i])
                   /\ Get(output.value[i], "category") = JStr(categories[i])
                   /\ ~Carries(entries[i], "code") =>
                          Get(output.value[i], "code") = JStr(CategoryCode(categories[i]))

\* C28 (amended): flattening a classification yields one Issue per entry of
\* every sequence-valued category, in category order then entry order; an
\* entry that carries no category is tagged with the category it is listed
\* under and one that carries no code gets the uppercased name of that
\* category as code, while an entry that carries a category or a code keeps
\* its own; the number of issues equals the total number of entries.
C28_OneIssuePerEntryInOrder ==
    Flattened =>
        LET entries == SourceEntries(input.classification)
            categories == SourceCategories(input.classification)
        IN  /\ Len(output.value) = Len(entries)
            /\ \A i \in 1..Len(entries) :
                   /\ MadeOf(output.value[i], entries[i])
                   /\ Get(output.value[i], "category") =
                          IF Carries(entries[i], "category")
                          THEN Get(entries[i], "category") ELSE JStr(categories[i])
                   /\ Get(output.value[i], "code") =
                          IF Carries(entries[i], "code")
                          THEN Get(entries[i], "code") ELSE JStr(CategoryCode(categories[i]))

\* a classification with two security entries, one of them carrying its
\* own category and code, and two uncertainty entries has been flattened
\* to four issues
C28_Witness ==
    /\ Flattened
    /\ Len(output.value) = 4
    /\ SourceCategories(input.classification) =
          <<"security", "security", "uncertainty", "uncertainty">>
    /\ ~Carries(SourceEntries(input.classification)[1], "code")
    /\ Carries(SourceEntries(input.classification)[2], "category")
    /\ Get(output.value[1], "code") = JStr("SECURITY")
    /\ Get(output.value[2], "category") = JStr("style")
    /\ Get(output.value[4], "code") = JStr("UNCERTAINTY")

(***************************************************************************)
(* Properties of the audit logger                                          *)
(***************************************************************************)
LoggerCalled == fn \in {"log_step", "add_output"}

IsStepCall(call) == call.method = "log_step"

IsOutputCall(call) == call.method = "add_output"

\* the step entries the log_step calls of a call sequence stand for
StepsOf(calls) ==
    LET picked == SelectSeq(calls, IsStepCall)
    IN  [i \in 1..Len(picked) |-> [name |-> picked[i].name, status |-> picked[i].status]]

\* the registry entries the add_output calls of a call sequence stand for
OutputsOf(calls) ==
    LET picked == SelectSeq(calls, IsOutputCall)
    IN  [i \in 1..Len(picked) |->
            [kind |-> picked[i].kind, path |-> picked[i].path,
             sha256 |-> Sha256(picked[i].content)]]

\* C29: the audit logger only appends: log_step adds exactly one entry at
\* the end of the step log and leaves every earlier step entry and the
\* artifact registry unchanged; add_output adds exactly one entry at the
\* end of the artifact registry and leaves the step log unchanged; so the
\* step log is in call order.
C29_LoggerOnlyAppends ==
    /\ [][(fn' = "log_step" /\ Len(output') = Len(output) + 1) =>
              /\ Len(input'.steps) = Len(input.steps) + 1
              /\ SubSeq(input'.steps, 1, Len(input.steps)) = input.steps
              /\ input'.steps[Len(input'.steps)] =
                     [name |-> output'[Len(output')].name,
                      status |-> output'[Len(output')].status]
              /\ input'.outputs = input.outputs]_vars
    /\ [][(fn' = "add_output" /\ Len(output') = Len(output) + 1) =>
              /\ Len(input'.outputs) = Len(input.outputs) + 1
              /\ SubSeq(input'.outputs, 1, Len(input.outputs)) = input.outputs
              /\ input'.outputs[Len(input'.outputs)].kind = output'[Len(output')].kind
              /\ input'.steps = input.steps]_vars
    /\ [](LoggerCalled =>
              /\ input.steps = StepsOf(output)
              /\ input.outputs = OutputsOf(output)
              /\ input.input_file = <<1, 1>>)

\* summary started, its artifact registered, summary success: two step
\* entries in that order and one artifact
C29_Witness ==
    /\ fn = "log_step"
    /\ Len(output) = 3
    /\ output[2].method = "add_output"
    /\ input.steps = <<[name |-> "summary", status |-> "started"],
                       [name |-> "summary", status |-> "success"]>>
    /\ Len(input.outputs) = 1

(***************************************************************************)
(* Termination of a run                                                    *)
(***************************************************************************)
DirectoryRunStarts == pc = "start" /\ args.entry = "directory" /\ args.path_exists

SummaryWritten == SummaryJson \in DOMAIN disk

InStage(s) == pc \in {s, s \o "_correction"}

\* every file handed to process_file is among the results or has its error
\* reported, never both
EveryFileRunEnded ==
    \A i \in 1..Len(files) :
        (\E j \in 1..Len(results) : results[j].path = files[i])
            <=> files[i] \notin FailedPaths

\* C30 (as stated): if every request to the service returns, a run over a
\* finite list of discovered files always terminates, and it ends with the
\* aggregate summary written and exit status 0.
C30_RunEndsWithSummaryAndStatusZero ==
    DirectoryRunStarts ~> (pc = "done" /\ exit_code = 0 /\ SummaryWritten)

\* C30 (amended): if every request to the service returns, a run always
\* terminates: each structured stage invocation ends, parsed or failed,
\* after at most two replies, each file run ends in success or failure, and
\* a directory-wide run over an existing root ends with the aggregate
\* summary written and status 0 when at least one file was discovered and
\* the output location can be written, with status 0 and no summary when
\* no file was discovered, and with status 1 and no summary when the
\* output location cannot be written.
C30_RunTerminates ==
    /\ [][<<pc', cur'>> # <<pc, cur>> /\ pc # "done"]_vars
    /\ <>[](pc = "done")
    /\ \A s \in StructuredStages : InStage(s) ~> ~InStage(s)
    /\ [](\A p \in Paths, s \in StructuredStages :
              Len(Of(requests, p, s)) <= 2 /\ Len(Of(parses, p, s)) <= Len(Of(requests, p, s)))
    /\ []((DirectoryRunEnded /\ args.path_exists) =>
              /\ attempted = files
              /\ EveryFileRunEnded
              /\ (Len(files) > 0 /\ args.output_writable) => (exit_code = 0 /\ SummaryWritten)
              /\ Len(files) = 0 => (exit_code = 0 /\ ~SummaryWritten)
              /\ (Len(files) > 0 /\ ~args.output_writable) => (exit_code = 1 /\ ~SummaryWritten))

\* a run of two files has ended with status 0 and its summary written: the
\* first file failed after its correction reply, the second succeeded
C30_Witness ==
    /\ DirectoryRunEnded
    /\ Len(files) = 2
    /\ exit_code = 0
    /\ SummaryWritten
    /\ files[1] \in FailedPaths
    /\ Len(Of(requests, files[1], "classification")) = 2
    /\ Len(results) = 1 /\ results[1].path = files[2]

(***************************************************************************)
(* Properties of the CI gate                                               *)
(***************************************************************************)
Gated == fn = "ai_ci_gate.main"

\* the result is a document whose deploy_ok is there and truthy
DeployOk(result) ==
    /\ result.t = "dict"
    /\ \E i \in 1..Len(result.v) :
          /\ result.v[i].k = "deploy_ok"
          /\ result.v[i].v \in {JBool(TRUE), JNum(1), JStr("false")}

\* the index of an effect in the outcome, 0 where it did not happen
EffectAt(effect) ==
    IF \E i \in 1..Len(output.effects) : output.effects[i] = effect
    THEN CHOOSE i \in 1..Len(output.effects) : output.effects[i] = effect
    ELSE 0

\* the gate document was written, and before the deploy was blocked
DocumentWrittenFirst ==
    /\ output.document # JNull
    /\ EffectAt("write_document") > 0
    /\ EffectAt("write_document") < EffectAt("blocking_deploy")

\* C31: the CI gate is fail-closed: main returns 0 only when the service
\* result's deploy_ok is truthy; a result with deploy_ok false or absent,
\* and a missing log file, give exit status 1, and when an output directory
\* is given the gate document is written before the blocking decision in
\* both cases.
C31_GateFailClosed ==
    Gated =>
        /\ output.exit = 0 => (input.args.log_exists /\ DeployOk(input.result))
        /\ ~input.args.log_exists => output.exit = 1
        /\ (input.args.log_exists /\ input.result.t = "dict" /\ ~DeployOk(input.result)) =>
               /\ output.exit = 1
               /\ input.args.output_dir => DocumentWrittenFirst

\* what holds of the gate as the repository has it: no run ends with
\* status 0, and none writes a gate document
C31_GateAlwaysBlocks ==
    (Gated /\ input.args.llm_client = llm_client_names) =>
        (output.exit = 1 /\ output.document = JNull)

\* what holds once the client has a review_ci_logs: status 0 exactly on a
\* truthy deploy_ok, and a blocked deploy has its document written first
\* where the directory can be written and the reasons can be iterated
C31_SuppliedClientFailsClosed ==
    (Gated /\ "review_ci_logs" \in input.args.llm_client) =>
        /\ output.exit = 0 => (input.args.log_exists /\ DeployOk(input.result))
        /\ ( /\ input.args.log_exists /\ input.args.output_dir /\ input.args.output_writable
             /\ input.result.t = "dict" /\ ~DeployOk(input.result)
             /\ Iterable(IF HasKey(input.result, "reasons")
                         THEN Get(input.result, "reasons") ELSE JList(<<>>)) )
               => (output.exit = 1 /\ DocumentWrittenFirst)

(***************************************************************************)
(* Properties of the persisted run records                                 *)
(***************************************************************************)
\* the entries of a step log that belong to one stage, in log order
StageEntries(steps, stage) ==
    LET picked == SelectSeq(steps, LAMBDA e : e.name = stage)
    IN  [i \in 1..Len(picked) |-> picked[i].status]

\* the step log is complete: every stage is there, started then success or
\* (the summary stage apart) skipped, the stages in their order, and no
\* other entry
CompleteStepLog(steps) ==
    /\ \A i \in 1..Len(steps) :
           /\ steps[i].name \in {StageNames[k] : k \in 1..4}
           /\ steps[i].status \in {"started", "success", "skipped"}
           /\ steps[i].status = "started" =>
                  /\ i < Len(steps)
                  /\ steps[i + 1] = [name |-> steps[i].name, status |-> "success"]
           /\ steps[i].status = "success" =>
                  /\ i > 1
                  /\ steps[i - 1] = [name |-> steps[i].name, status |-> "started"]
    /\ \A i, j \in 1..Len(steps) :
           i < j => StageIndex(steps[i].name) <= StageIndex(steps[j].name)
    /\ StageEntries(steps, "summary") = <<"started", "success">>
    /\ \A k \in 2..4 :
           StageEntries(steps, StageNames[k]) \in {<<"started", "success">>, <<"skipped">>}

\* C32: every persisted run record has a complete step log: the summary
\* stage appears as started then success, each of classification, analysis
\* and refactor either as started then success or as a single skipped, in
\* stage order; no persisted record holds a failed status or a started
\* without its success.
C32_PersistedStepLogComplete ==
    \A n \in RunRecords :
        /\ disk[n].kind = "json"
        /\ CompleteStepLog(disk[n].value.steps)

\* a run of two files has ended: the first failed in its classification
\* stage and has no record, the second has a record whose step log has a
\* stage skipped and a stage run
C32_Witness ==
    /\ DirectoryRunEnded
    /\ Len(files) = 2
    /\ files[1] \in FailedPaths
    /\ Len(Of(requests, files[1], "classification")) > 0
    /\ files[1][2] # files[2][2]
    /\ RunRecords = {RunRecordOf(files[2])}
    /\ StageEntries(disk[RunRecordOf(files[2])].value.steps, "analysis") = <<"skipped">>
    /\ StageEntries(disk[RunRecordOf(files[2])].value.steps, "classification") =
          <<"started", "success">>

(***************************************************************************)
(* Properties of the scores of the directory pipeline                      *)
(***************************************************************************)
\* the score of a file with that many issues and risks when every issue
\* weighs as a medium one
MediumScore(issues, risks) ==
    IF 10 * issues + 5 * risks > 100 THEN 100 ELSE 10 * issues + 5 * risks

\* the error main reported for a file is the validator's refusal of an
\* entry that is no string
EntryRefused(file) ==
    \E i \in 1..Len(stderr) :
        /\ stderr[i].path = file
        /\ stderr[i].exc.msg = "Classification: entry is not a string"

NonDryRunEnded == DirectoryRunEnded /\ ~args.dry_run /\ SummaryWritten

\* the file is in the files list of the aggregate summary
Listed(file) ==
    \E j \in 1..Len(disk[SummaryJson].value.files) :
        disk[SummaryJson].value.files[j].path = file

\* the run record of the file is at the log location
Recorded(file) ==
    /\ RunRecordOf(file) \in DOMAIN disk
    /\ disk[RunRecordOf(file)].value.input_file = file

\* the index has an entry of the file
Indexed(file) ==
    \E k \in 1..Len(IndexEntries) : IndexEntries[k].record.input_file = file

DistinctBaseNames ==
    \A i, j \in 1..Len(files) : files[i][2] = files[j][2] => i = j

\* C34: in a non-dry sequential run, a file has a run record and an index
\* entry if and only if it is in the files list of the aggregate: a file
\* that fails at any stage leaves no run record and no index entry, and the
\* number of index entries appended during the run equals scanned_files.
C34_RecordedIffListed ==
    NonDryRunEnded =>
        /\ \A i \in 1..Len(files) :
               /\ Listed(files[i]) <=> (Recorded(files[i]) /\ Indexed(files[i]))
               /\ files[i] \in FailedPaths => (~Recorded(files[i]) /\ ~Indexed(files[i]))
        /\ Len(IndexEntries) = disk[SummaryJson].value.scanned_files

\* the same for runs whose files have pairwise different base names
C34_DistinctBaseNamesRecordedIffListed ==
    (NonDryRunEnded /\ DistinctBaseNames) =>
        /\ \A i \in 1..Len(files) :
               /\ Listed(files[i]) <=> (Recorded(files[i]) /\ Indexed(files[i]))
               /\ files[i] \in FailedPaths => (~Recorded(files[i]) /\ ~Indexed(files[i]))
        /\ Len(IndexEntries) = disk[SummaryJson].value.scanned_files

\* what holds of every run: a file is listed if and only if it is indexed,
\* and a failed file is neither
C34_IndexedIffListed ==
    NonDryRunEnded =>
        /\ \A i \in 1..Len(files) :
               /\ Listed(files[i]) <=> Indexed(files[i])
               /\ files[i] \in FailedPaths => ~Indexed(files[i])
        /\ Len(IndexEntries) = disk[SummaryJson].value.scanned_files

\* ---------------------------------------------------------------------------
\* C35: fail-fast file runs
\* ---------------------------------------------------------------------------

\* the requests sent for the file
RequestsFor(log, file) == SelectSeq(log, LAMBDA e : e.path = file)

\* the per-file artifacts at the output location under the file's base name
ArtifactsOf(d, file) == { n \in DOMAIN d : n[1] = "output" /\ n[2] = file[2] }

\* a step by which the failed file is not taken up again: it sends no
\* request, is not the current file of a stage, and has no run record and no
\* index entry
NotResumed(file) ==
    /\ RequestsFor(requests', file) = RequestsFor(requests, file)
    /\ (cur' \in 1..Len(files) => files[cur'] # file)
    /\ ~Recorded(file)'
    /\ ~Indexed(file)'

\* a step by which the artifacts written by the file's stages stay on disk
ArtifactsStay(file) ==
    \A n \in ArtifactsOf(disk, file) : n \in DOMAIN disk' /\ disk'[n] = disk[n]

\* C35: a file run is fail-fast: once a stage of a file has failed, no later
\* stage of that file sends a request, no further artifact, run record or
\* index entry is written for that file, and the artifacts of the stages
\* that had succeeded stay on disk.
C35_FailFast ==
    [][\A i \in 1..Len(files) : files[i] \in FailedPaths =>
          NotResumed(files[i]) /\ ArtifactsStay(files[i])]_vars

\* the same for runs whose files have pairwise different base names, where
\* moreover nothing is added under the failed file's base name
C35_DistinctBaseNamesFailFast ==
    [][DistinctBaseNames =>
          \A i \in 1..Len(files) : files[i] \in FailedPaths =>
              /\ NotResumed(files[i])
              /\ ArtifactsStay(files[i])
              /\ ArtifactsOf(disk', files[i]) = ArtifactsOf(disk, files[i])]_vars

\* what holds of every run: after its failure a file is not taken up again,
\* and no artifact is removed
C35_FailedFileNeverResumed ==
    [][\A i \in 1..Len(files) : files[i] \in FailedPaths =>
          /\ NotResumed(files[i])
          /\ ArtifactsOf(disk, files[i]) \subseteq ArtifactsOf(disk', files[i])]_vars

\* a failed file whose earlier artifact is on disk, followed by a file that
\* completed
C35_Witness ==
    /\ pc = "done"
    /\ DistinctBaseNames
    /\ \E i \in 1..Len(files) :
          /\ files[i] \in FailedPaths
          /\ ArtifactsOf(disk, files[i]) # {}
          /\ \E j \in 1..Len(results) : \E k \in (i+1)..Len(files) :
                results[j].path = files[k]

\* ---------------------------------------------------------------------------
\* C36: the order of the writes of a file run
\* ---------------------------------------------------------------------------

\* every output registered in the audit record of the running file is on
\* disk with the content it was registered with
RegisteredIsWritten ==
    \A i \in 1..Len(run_logger.outputs) :
        /\ run_logger.outputs[i].path \in DOMAIN disk
        /\ Sha256(disk[run_logger.outputs[i].path]) = run_logger.outputs[i].sha256

\* the artifact suffix of a stage
ArtifactSuffix(stage) ==
    CASE stage = "summary" -> "_summary.json"
      [] stage = "classification" -> "_classification.json"
      [] stage = "analysis" -> "_analysis.json"
      [] stage = "refactor" -> "_refactor.sql"

\* every enabled stage of the running file has succeeded: its success is in
\* the step log, its request was sent and its artifact is on disk
EnabledStagesSucceeded ==
    \A k \in 1..4 : StageEnabled(StageNames[k]) =>
        /\ \E i \in 1..Len(run_logger.steps) :
               run_logger.steps[i] = [name |-> StageNames[k], status |-> "success"]
        /\ Of(requests, path, StageNames[k]) # <<>>
        /\ <<"output", base_name, ArtifactSuffix(StageNames[k])>> \in DOMAIN disk

\* a step that persists a run record
PersistsRunRecord ==
    \E n \in RunRecords' : n \notin RunRecords \/ disk'[n] # disk[n]

\* a step that updates the index
UpdatesIndex == IndexEntries' # IndexEntries

NoFileMatched ==
    /\ args.entry = "directory"
    /\ args.path_exists
    /\ pc # "start"
    /\ files = <<>>

\* C37: when the root path exists but no file matches the pattern, the run
\* exits 0 without sending a request and without writing an aggregate
\* summary, a run record or an index.
C37_NoMatchExitsZeroWritingNothing ==
    NoFileMatched =>
        /\ pc = "done"
        /\ exit_code = 0
        /\ requests = <<>>
        /\ SummaryJson \notin DOMAIN disk
        /\ RunRecords = {}
        /\ index_path \notin DOMAIN disk
        /\ DOMAIN disk = {}
        /\ stderr = <<>>

\* the run of an existing root without matching files has ended
C37_Witness == NoFileMatched /\ pc = "done"

\* ---------------------------------------------------------------------------
\* C38: a mean halfway between two integers
\* ---------------------------------------------------------------------------

\* the mean of the risk scores lies exactly halfway between two integers
MeanIsHalfway == Len(input) > 0 /\ (2 * SumSeq(RiskScores)) % (2 * Len(input)) = Len(input)

\* C38: when the mean of the per-file risk scores lies exactly halfway
\* between two integers, overall_risk_score is the even one of the two:
\* scores 10 and 15 give 12, scores 5 and 10 give 8.
C38_HalfwayMeanRoundsToEven ==
    (Aggregated /\ MeanIsHalfway) =>
        LET overall == output.value.overall_risk_score
        IN  /\ overall % 2 = 0
            /\ 2 * Len(input) * overall - 2 * SumSeq(RiskScores) \in {Len(input), -Len(input)}
            /\ RiskScores = <<10, 15>> => overall = 12
            /\ RiskScores = <<5, 10>> => overall = 8

\* scores 10 and 15 aggregated to 12
C38_Witness ==
    /\ Aggregated
    /\ RiskScores = <<10, 15>>
    /\ output.value.overall_risk_score = 12

\* scores 5 and 10 aggregated to 8
C38_WitnessRoundsUp ==
    /\ Aggregated
    /\ RiskScores = <<5, 10>>
    /\ output.value.overall_risk_score = 8

====
